---- MODULE Spec2Model ----
(***************************************************************************)
(* State-machine model of the tavern renderer: main_state.c (init, update, *)
(* scroll callback, materials, scene geometry, render) and                 *)
(* tavern_renderer.c (camera, G-buffer, cube shadow maps).                 *)
(*                                                                         *)
(* Units.  Floats are modelled by scaled integers:                         *)
(*   time        tenths of a second   (0.5 s  = 5)                         *)
(*   angles      tenths of a degree   (89 deg = 890); one cursor pixel at  *)
(*               sensitivity 0.1 is exactly one unit                       *)
(*   lengths     millimetres          (1.0    = 1000)                      *)
(*   directions  thousandths          (1.0    = 1000)                      *)
(*   distance    tenths               (0.5    = 5, the scroll increment)   *)
(*   radius      whole units          (Q/E step by 1.0)                    *)
(***************************************************************************)
EXTENDS Integers, Sequences, FiniteSets, TLC

VARIABLES
    camera,                   \* Camera: position, front, yaw, pitch
    mouse,                    \* camera_update statics: lastX, lastY, firstMouse
    lights,                   \* PointLight lights[8]
    num_lights,
    base_num_lights,
    flashlight_active,
    flashlight_distance,
    global_light_radius,
    flashlight_only_shadows,
    animation_time,
    startup_flashlight_timer,
    pressed,                  \* main_state_update statics: *_key_pressed
    shadow_resources,         \* shadow FBO/cube-map pairs generated so far
    texture_manager,          \* TextureManager: one Material per object kind
    phase,                    \* position of the frame loop: "update" | "render"
    frame,                    \* what the last main_state_render issued
    cube,                     \* input/output of a stand-alone cube-map render
    gb,                       \* input/output of a stand-alone gbuffer_init
    probe                     \* observer of F key strokes and scroll inputs (history only)

vars == << camera, mouse, lights, num_lights, base_num_lights,
           flashlight_active, flashlight_distance, global_light_radius,
           flashlight_only_shadows, animation_time, startup_flashlight_timer,
           pressed, shadow_resources, texture_manager, phase, frame, cube, gb,
           probe >>

----------------------------------------------------------------------------
(* Bounds of the model (not program constants).                            *)

\* Updates stop once animation_time would pass MaxTime (tenths of a second).
MaxTime == 26

\* Largest cursor coordinate the cursor inputs are drawn from (pixels).
MaxCursor == 5000

\* Largest coordinate of the light positions a stand-alone cube render is
\* given (metres; the positions are -MaxCoord..MaxCoord on each axis).
MaxCoord == 2

\* Largest number of image files that are missing when the materials load.
MaxMissing == 2

\* Largest width and height a stand-alone gbuffer_init is given (pixels).
MaxSize == 8

----------------------------------------------------------------------------
(* Program constants.                                                      *)

MaxLights == 8            \* PointLight lights[8]
NumWallCandles == 3
NumTableCandles == 3
StartupDelay == 5         \* 0.5f
RadiusInit == 8           \* global_light_radius = 8.0f
RadiusMin == 1
RadiusMax == 20
FlashlightRadius == 50    \* .radius = 50.0f
DistanceMin == -50        \* -5.0f in tenths
DistanceMax == 100        \* 10.0f in tenths
ScrollStep == 5           \* 0.5f in tenths
PitchMax == 890           \* 89.0f
YawInit == -900           \* -90.0f
CubeFaces == 6

----------------------------------------------------------------------------
(* Vector helpers (rafgl's vec3_t routines, on integer triples).           *)

vec3(x, y, z) == << x, y, z >>
v3_add(a, b) == << a[1] + b[1], a[2] + b[2], a[3] + b[3] >>
v3_sub(a, b) == << a[1] - b[1], a[2] - b[2], a[3] - b[3] >>
v3_cross(a, b) == << a[2] * b[3] - a[3] * b[2],
                     a[3] * b[1] - a[1] * b[3],
                     a[1] * b[2] - a[2] * b[1] >>

\* Integer division rounding toward zero, as a float product truncated to
\* the model's grid.
DivT(a, b) == IF a >= 0 THEN a \div b ELSE -((-a) \div b)

\* v3_muls(front, d) for a direction in thousandths and a distance in tenths:
\* millimetres = front/1000 * d/10 * 1000.
v3_muls(f, d) == << DivT(f[1] * d, 10), DivT(f[2] * d, 10), DivT(f[3] * d, 10) >>

----------------------------------------------------------------------------
(* Trigonometry on the integer grid.  sinf/cos are approximated by         *)
(* Bhaskara's formula, exact at multiples of 90 degrees.                   *)

\* sin of an angle in tenths of a degree, in thousandths.
SinHalfTurn(d) ==
    LET q == (d * (1800 - d)) \div 100
    IN  (4000 * q) \div (40500 - q)
sin1000(a) ==
    LET d == a % 3600
    IN  IF d < 1800 THEN SinHalfTurn(d) ELSE -SinHalfTurn(d - 1800)
cos1000(a) == sin1000(a + 900)

\* sinf of a phase in thousandths of a radian (1 rad = 573 tenths of a degree).
sinf1000(p) == sin1000((p * 573) \div 1000)

----------------------------------------------------------------------------
(* tavern_renderer.c: camera.                                              *)

camera_init ==
    [ position |-> vec3(0, 1600, 5000),
      front    |-> vec3(0, 0, -1000),
      yaw      |-> YawInit,
      pitch    |-> 0 ]

mouse_init == [ lastX |-> 400, lastY |-> 300, firstMouse |-> 1 ]

\* The two clamping statements of camera_update.  (ClampPitchNoFloor is the
\* variant without the second statement, against which C5 is tested.)
ClampPitchNoFloor(p) == IF p > PitchMax THEN PitchMax ELSE p
ClampPitch(p) ==
    LET hi == IF p > PitchMax THEN PitchMax ELSE p
    IN  IF hi < -PitchMax THEN -PitchMax ELSE hi

\* cam->yaw += xoffset.  (YawClamped is the variant that would keep the yaw
\* within a full turn, against which C6 is tested.)
YawClamped(yaw, xoffset) ==
    LET y == yaw + xoffset
    IN  IF y > 3600 THEN 3600 ELSE IF y < -3600 THEN -3600 ELSE y
YawStep(yaw, xoffset) == yaw + xoffset

\* direction from yaw and pitch (already of unit length, so v3_norm keeps it).
Direction(yaw, pitch) ==
    vec3(DivT(cos1000(yaw) * cos1000(pitch), 1000),
         sin1000(pitch),
         DivT(sin1000(yaw) * cos1000(pitch), 1000))

\* v3_norm(v3_cross(front, up)): the horizontal unit vector to the right of
\* front, for up = (0,1,0) at start and up = right x front afterwards.
Strafe(yaw) == vec3(-sin1000(yaw), 0, cos1000(yaw))

\* v3_muls(dir, cam->speed * deltaTime): speed 5.0, dir in thousandths,
\* deltaTime in tenths of a second, result in millimetres.
MoveBy(dir, dt) == vec3(DivT(dir[1] * dt, 2), DivT(dir[2] * dt, 2), DivT(dir[3] * dt, 2))

\* Keyboard part of camera_update: W, S, A, D in this order.
camera_move(cam, down, dt) ==
    LET p0 == cam.position
        p1 == IF "W" \in down THEN v3_add(p0, MoveBy(cam.front, dt)) ELSE p0
        p2 == IF "S" \in down THEN v3_sub(p1, MoveBy(cam.front, dt)) ELSE p1
        p3 == IF "A" \in down THEN v3_sub(p2, MoveBy(Strafe(cam.yaw), dt)) ELSE p2
        p4 == IF "D" \in down THEN v3_add(p3, MoveBy(Strafe(cam.yaw), dt)) ELSE p3
    IN  p4

\* camera_update: returns the new camera and the new statics.
camera_update(cam, m, down, xpos, ypos, dt) ==
    LET lastX   == IF m.firstMouse = 1 THEN xpos ELSE m.lastX
        lastY   == IF m.firstMouse = 1 THEN ypos ELSE m.lastY
        xoffset == xpos - lastX
        yoffset == lastY - ypos
        yaw     == YawStep(cam.yaw, xoffset)
        pitch   == ClampPitch(cam.pitch + yoffset)
    IN  [ camera |-> [ position |-> camera_move(cam, down, dt),
                       front    |-> Direction(yaw, pitch),
                       yaw      |-> yaw,
                       pitch    |-> pitch ],
          mouse  |-> [ lastX |-> xpos, lastY |-> ypos, firstMouse |-> 0 ] ]


----------------------------------------------------------------------------
(* tavern_renderer.c / main_state.c: lights.                               *)

LightIndex == 0 .. (MaxLights - 1)

\* A zero-initialised PointLight (static storage).
NoLight == [ position |-> vec3(0, 0, 0), color |-> vec3(0, 0, 0), radius |-> 0,
             shadowFBO |-> 0, shadowCubeMap |-> 0 ]

\* setup_point_light_shadows: generates one framebuffer and one cube map.
\* n is the number of pairs generated before; handles are never reused.
setup_point_light_shadows(light, n) ==
    [ light EXCEPT !.shadowFBO = n + 1, !.shadowCubeMap = n + 1 ]

\* wall_candles[i] and table_candles[i] as initialised by main_state_init
\* (flicker_speed and time_offset in tenths).
wall_candles ==
    << [ position |-> vec3(0, 1800, -5150),    flicker_speed |-> 30, time_offset |-> 0,
         light_offset |-> vec3(0, 150, 500),   light_index |-> 0 ],
       [ position |-> vec3(-5150, 1500, 2000), flicker_speed |-> 25, time_offset |-> 10,
         light_offset |-> vec3(500, 150, 0),   light_index |-> 1 ],
       [ position |-> vec3(5150, 1500, -1000), flicker_speed |-> 28, time_offset |-> 20,
         light_offset |-> vec3(-500, 150, 0),  light_index |-> 2 ] >>

table_candles ==
    << [ base_position |-> vec3(-3500, 1400, 1000), flicker_speed |-> 25, time_offset |-> 0,
         light_index |-> NumWallCandles + 0 ],
       [ base_position |-> vec3(-1000, 1400, 3500), flicker_speed |-> 28, time_offset |-> 8,
         light_index |-> NumWallCandles + 1 ],
       [ base_position |-> vec3(1500, 1400, 500),   flicker_speed |-> 31, time_offset |-> 16,
         light_index |-> NumWallCandles + 2 ] >>

CandleColor(intensity) == vec3(intensity, (intensity * 6) \div 10, (intensity * 3) \div 10)

\* phase = animation_time * flicker_speed + time_offset, thousandths of a radian.
Phase(t, c) == t * c.flicker_speed * 10 + c.time_offset * 100

\* 0.85f + 0.15f * sinf(phase) * sinf(phase * 1.3f), in thousandths.
Intensity(ph) == 850 + DivT(150 * sinf1000(ph) * sinf1000((ph * 13) \div 10), 1000000)

\* amp * sinf(phase * k / 10), amp in millimetres.
Wobble(amp, ph, k) == DivT(amp * sinf1000((ph * k) \div 10), 1000)

----------------------------------------------------------------------------
(* main_state.c: main_state_init.  The program state is handled as one     *)
(* record so that the sections of main_state_update compose in order.      *)

\* The candle lights created by the two init loops, with their shadow maps.
InitCandleLights ==
    [ i \in LightIndex |->
        IF i < NumWallCandles
        THEN setup_point_light_shadows(
                 [ position |-> v3_add(wall_candles[i + 1].position,
                                       wall_candles[i + 1].light_offset),
                   color |-> vec3(1000, 600, 300), radius |-> RadiusInit,
                   shadowFBO |-> 0, shadowCubeMap |-> 0 ], i)
        ELSE IF i < NumWallCandles + NumTableCandles
        THEN setup_point_light_shadows(
                 [ position |-> v3_add(table_candles[i - NumWallCandles + 1].base_position,
                                       vec3(0, 120, 0)),
                   color |-> vec3(1000, 600, 300), radius |-> RadiusInit,
                   shadowFBO |-> 0, shadowCubeMap |-> 0 ], i)
        ELSE NoLight ]

main_state_init ==
    LET base == NumWallCandles + NumTableCandles
        cam  == camera_init
        dist == 0
        torch == setup_point_light_shadows(
                     [ position |-> v3_add(cam.position, v3_muls(cam.front, dist)),
                       color |-> vec3(1000, 1000, 1000), radius |-> RadiusInit,
                       shadowFBO |-> 0, shadowCubeMap |-> 0 ], base)
    IN  [ camera |-> cam,
          mouse |-> mouse_init,
          lights |-> [ InitCandleLights EXCEPT ![base] = torch ],
          num_lights |-> base + 1,
          base_num_lights |-> base,
          flashlight_active |-> 1,
          flashlight_distance |-> dist,
          global_light_radius |-> RadiusInit,
          flashlight_only_shadows |-> 1,
          animation_time |-> 0,
          startup_flashlight_timer |-> 0,
          pressed |-> [ f |-> 0, q |-> 0, e |-> 0, tab |-> 0, r |-> 0 ],
          shadow_resources |-> base + 1 ]


----------------------------------------------------------------------------
(* main_state.c: main_state_update, section by section.                    *)

TimerDone == -10          \* startup_flashlight_timer = -1.0f

\* if (startup_flashlight_timer > 0.5f).  (TimerExpiredAtDelay is the variant
\* with >=, against which C3 is tested.)
TimerExpiredAtDelay(t) == t >= StartupDelay
TimerExpired(t) == t > StartupDelay

\* Auto-deactivate startup flashlight after brief delay.
\* (StartupTimerKeepsCount is the variant that forgets num_lights, against
\* which C26 is tested.)
StartupTimerKeepsCount(s, dt) ==
    IF s.flashlight_active = 1 /\ s.startup_flashlight_timer >= 0
    THEN LET t == s.startup_flashlight_timer + dt
         IN  IF TimerExpired(t)
             THEN [ s EXCEPT !.flashlight_active = 0,
                             !.startup_flashlight_timer = TimerDone ]
             ELSE [ s EXCEPT !.startup_flashlight_timer = t ]
    ELSE s
StartupTimer(s, dt) ==
    IF s.flashlight_active = 1 /\ s.startup_flashlight_timer >= 0
    THEN LET t == s.startup_flashlight_timer + dt
         IN  IF TimerExpired(t)
             THEN [ s EXCEPT !.flashlight_active = 0,
                             !.num_lights = s.base_num_lights,
                             !.startup_flashlight_timer = TimerDone ]
             ELSE [ s EXCEPT !.startup_flashlight_timer = t ]
    ELSE s

\* The wall-candle loop: position and colour of lights[candle->light_index].
AnimateWall(ls, t) ==
    [ i \in LightIndex |->
        IF \E k \in 1 .. NumWallCandles : wall_candles[k].light_index = i
        THEN LET c  == wall_candles[CHOOSE k \in 1 .. NumWallCandles :
                                        wall_candles[k].light_index = i]
                 ph == Phase(t, c)
                 flame_flicker == vec3(Wobble(5, ph, 21), Wobble(10, ph, 17),
                                       Wobble(5, ph, 23))
             IN  [ ls[i] EXCEPT
                     !.position = v3_add(c.position, v3_add(c.light_offset, flame_flicker)),
                     !.color = CandleColor(Intensity(ph)) ]
        ELSE ls[i] ]

\* The table-candle loop.
\* (AnimateTableResetsRadius is the variant that also writes the radius the
\* candle lights were created with, against which C29 is tested.)
AnimateTableResetsRadius(ls, t) ==
    [ i \in LightIndex |->
        IF \E k \in 1 .. NumTableCandles : table_candles[k].light_index = i
        THEN LET c  == table_candles[CHOOSE k \in 1 .. NumTableCandles :
                                         table_candles[k].light_index = i]
                 ph == Phase(t, c)
                 flame_offset == vec3(Wobble(10, ph, 21), Wobble(20, ph, 17),
                                      Wobble(10, ph, 23))
             IN  [ ls[i] EXCEPT
                     !.position = v3_add(c.base_position,
                                         v3_add(flame_offset, vec3(0, 120, 0))),
                     !.color = CandleColor(Intensity(ph)),
                     !.radius = RadiusInit ]
        ELSE ls[i] ]
AnimateTable(ls, t) ==
    [ i \in LightIndex |->
        IF \E k \in 1 .. NumTableCandles : table_candles[k].light_index = i
        THEN LET c  == table_candles[CHOOSE k \in 1 .. NumTableCandles :
                                         table_candles[k].light_index = i]
                 ph == Phase(t, c)
                 flame_offset == vec3(Wobble(10, ph, 21), Wobble(20, ph, 17),
                                      Wobble(10, ph, 23))
             IN  [ ls[i] EXCEPT
                     !.position = v3_add(c.base_position,
                                         v3_add(flame_offset, vec3(0, 120, 0))),
                     !.color = CandleColor(Intensity(ph)) ]
        ELSE ls[i] ]

AnimateCandles(s) ==
    [ s EXCEPT !.lights = AnimateTable(AnimateWall(s.lights, s.animation_time),
                                       s.animation_time) ]

\* F key just pressed while the flashlight is off: add the flashlight.
\* (FlashlightOnAppended is the variant that gives every flashlight a slot of
\* its own after the lights made so far, against which C12 is tested.)
FlashlightOnAppended(s) ==
    LET b == s.shadow_resources
        torch == setup_point_light_shadows(
                     [ position |-> s.camera.position,
                       color |-> vec3(1000, 900, 700), radius |-> FlashlightRadius,
                       shadowFBO |-> 0, shadowCubeMap |-> 0 ], s.shadow_resources)
    IN  [ s EXCEPT !.lights[b] = torch,
                   !.shadow_resources = s.shadow_resources + 1,
                   !.flashlight_active = 1,
                   !.num_lights = b + 1 ]
FlashlightOn(s) ==
    LET b == s.base_num_lights
        torch == setup_point_light_shadows(
                     [ position |-> s.camera.position,
                       color |-> vec3(1000, 900, 700), radius |-> FlashlightRadius,
                       shadowFBO |-> 0, shadowCubeMap |-> 0 ], s.shadow_resources)
    IN  [ s EXCEPT !.lights[b] = torch,
                   !.shadow_resources = s.shadow_resources + 1,
                   !.flashlight_active = 1,
                   !.num_lights = b + 1 ]

\* F key released while the flashlight is on: turn it off.
\* (FlashlightOffKeepsCount is the variant that forgets num_lights, against
\* which C1 is tested.)
FlashlightOffKeepsCount(s) == [ s EXCEPT !.flashlight_active = 0 ]
FlashlightOff(s) ==
    [ s EXCEPT !.flashlight_active = 0, !.num_lights = s.base_num_lights ]

\* Handle flashlight toggle with F key.
FlashlightKey(s, down) ==
    IF "F" \in down
    THEN IF s.pressed.f = 0
         THEN LET s1 == IF s.flashlight_active = 0 THEN FlashlightOn(s) ELSE s
              IN  [ s1 EXCEPT !.pressed.f = 1 ]
         ELSE s
    ELSE LET s1 == IF s.pressed.f = 1 /\ s.flashlight_active = 1
                   THEN FlashlightOff(s) ELSE s
         IN  [ s1 EXCEPT !.pressed.f = 0 ]

\* global_light_radius -= 1.0f, clamped below; += 1.0f, clamped above.
\* (IncreaseRadiusUnclamped is the variant without the upper clamp, against
\* which C4 is tested.)
DecreaseRadius(r) == IF r - 1 < RadiusMin THEN RadiusMin ELSE r - 1
IncreaseRadiusUnclamped(r) == r + 1
IncreaseRadius(r) == IF r + 1 > RadiusMax THEN RadiusMax ELSE r + 1

\* for (i = 0; i < base_num_lights; i++) lights[i].radius = global_light_radius
SetRadius(ls, base, r) ==
    [ i \in LightIndex |-> IF i < base THEN [ ls[i] EXCEPT !.radius = r ] ELSE ls[i] ]

\* Handle light radius adjustment with Q/E keys (Q first, then E).
\* (RadiusKeysRepeating is the variant that acts in every update that sees
\* the key down, against which C23 is tested.)
RadiusKeysRepeating(s, down) ==
    LET sq == IF "Q" \in down
              THEN LET r == DecreaseRadius(s.global_light_radius)
                   IN  [ s EXCEPT !.global_light_radius = r,
                                  !.lights = SetRadius(s.lights, s.base_num_lights, r),
                                  !.pressed.q = 1 ]
              ELSE [ s EXCEPT !.pressed.q = 0 ]
    IN  IF "E" \in down
        THEN LET r == IncreaseRadius(sq.global_light_radius)
             IN  [ sq EXCEPT !.global_light_radius = r,
                             !.lights = SetRadius(sq.lights, sq.base_num_lights, r),
                             !.pressed.e = 1 ]
        ELSE [ sq EXCEPT !.pressed.e = 0 ]
RadiusKeys(s, down) ==
    LET sq == IF "Q" \in down
              THEN LET r  == DecreaseRadius(s.global_light_radius)
                       s1 == IF s.pressed.q = 0
                             THEN [ s EXCEPT !.global_light_radius = r,
                                             !.lights = SetRadius(s.lights, s.base_num_lights, r) ]
                             ELSE s
                   IN  [ s1 EXCEPT !.pressed.q = 1 ]
              ELSE [ s EXCEPT !.pressed.q = 0 ]
    IN  IF "E" \in down
        THEN LET r  == IncreaseRadius(sq.global_light_radius)
                 s1 == IF sq.pressed.e = 0
                       THEN [ sq EXCEPT !.global_light_radius = r,
                                        !.lights = SetRadius(sq.lights, sq.base_num_lights, r) ]
                       ELSE sq
             IN  [ s1 EXCEPT !.pressed.e = 1 ]
        ELSE [ sq EXCEPT !.pressed.e = 0 ]

\* Handle shadow mode toggle with TAB key.
\* (ShadowModeKeyOff is the variant that switches to all-lights mode instead
\* of toggling, against which C24 is tested.)
ShadowModeKeyOff(s, down) ==
    IF "TAB" \in down
    THEN LET s1 == IF s.pressed.tab = 0
                   THEN [ s EXCEPT !.flashlight_only_shadows = 0 ]
                   ELSE s
         IN  [ s1 EXCEPT !.pressed.tab = 1 ]
    ELSE [ s EXCEPT !.pressed.tab = 0 ]
ShadowModeKey(s, down) ==
    IF "TAB" \in down
    THEN LET s1 == IF s.pressed.tab = 0
                   THEN [ s EXCEPT !.flashlight_only_shadows = 1 - s.flashlight_only_shadows ]
                   ELSE s
         IN  [ s1 EXCEPT !.pressed.tab = 1 ]
    ELSE [ s EXCEPT !.pressed.tab = 0 ]

\* Handle flashlight distance reset with R key.
\* (ResetKeyAlways is the variant that does not look at flashlight_active,
\* against which C22 is tested.)
ResetKeyAlways(s, down) ==
    IF "R" \in down
    THEN LET s1 == IF s.pressed.r = 0
                   THEN [ s EXCEPT !.flashlight_distance = 0 ]
                   ELSE s
         IN  [ s1 EXCEPT !.pressed.r = 1 ]
    ELSE [ s EXCEPT !.pressed.r = 0 ]
ResetKey(s, down) ==
    IF "R" \in down
    THEN LET s1 == IF s.pressed.r = 0 /\ s.flashlight_active = 1
                   THEN [ s EXCEPT !.flashlight_distance = 0 ]
                   ELSE s
         IN  [ s1 EXCEPT !.pressed.r = 1 ]
    ELSE [ s EXCEPT !.pressed.r = 0 ]

\* Update flashlight position to follow camera at controlled distance.
\* (FollowCameraAtEye is the variant that leaves the distance out, against
\* which C17 is tested.)
FollowCameraAtEye(s) ==
    IF s.flashlight_active = 1
    THEN [ s EXCEPT !.lights[s.base_num_lights].position = s.camera.position ]
    ELSE s
FollowCamera(s) ==
    IF s.flashlight_active = 1
    THEN [ s EXCEPT !.lights[s.base_num_lights].position =
               v3_add(s.camera.position,
                      v3_muls(s.camera.front, s.flashlight_distance)) ]
    ELSE s

\* camera_update(&camera, window, delta_time); animation_time += delta_time;
UpdateCamera(s, down, xpos, ypos, dt) ==
    LET cu == camera_update(s.camera, s.mouse, down, xpos, ypos, dt)
    IN  [ s EXCEPT !.camera = cu.camera, !.mouse = cu.mouse,
                   !.animation_time = s.animation_time + dt ]

\* The member of a one-element set.
Only(One) == CHOOSE r \in One : TRUE

\* The sections in statement order, innermost first; each intermediate
\* state is computed once and handed to the next section.
main_state_update(s, down, xpos, ypos, dt) ==
    Only({ FollowCamera(s7) : s7 \in
         { ResetKey(s6, down) : s6 \in
         { ShadowModeKey(s5, down) : s5 \in
         { RadiusKeys(s4, down) : s4 \in
         { FlashlightKey(s3, down) : s3 \in
         { AnimateCandles(s2) : s2 \in
         { StartupTimer(s1, dt) : s1 \in
         { UpdateCamera(s0, down, xpos, ypos, dt) : s0 \in { s } } } } } } } } })

\* scroll_callback: fdown is glfwGetKey(window, GLFW_KEY_F) == GLFW_PRESS.
\* (scroll_callback_uneven is the variant that moves back by 0.3 instead of
\* 0.5, against which C20 is tested; scroll_callback_any_key is the variant
\* that does not look at the F key, against which C21 is tested.)
scroll_callback_any_key(s, fdown, yoffset) ==
    IF s.flashlight_active = 1
    THEN LET d1 == IF yoffset > 0 THEN s.flashlight_distance + ScrollStep
                   ELSE IF yoffset < 0 THEN s.flashlight_distance - ScrollStep
                   ELSE s.flashlight_distance
             d2 == IF d1 < DistanceMin THEN DistanceMin ELSE d1
             d3 == IF d2 > DistanceMax THEN DistanceMax ELSE d2
         IN  [ s EXCEPT !.flashlight_distance = d3 ]
    ELSE s
scroll_callback_uneven(s, fdown, yoffset) ==
    IF fdown /\ s.flashlight_active = 1
    THEN LET d1 == IF yoffset > 0 THEN s.flashlight_distance + ScrollStep
                   ELSE IF yoffset < 0 THEN s.flashlight_distance - 3
                   ELSE s.flashlight_distance
             d2 == IF d1 < DistanceMin THEN DistanceMin ELSE d1
             d3 == IF d2 > DistanceMax THEN DistanceMax ELSE d2
         IN  [ s EXCEPT !.flashlight_distance = d3 ]
    ELSE s
scroll_callback(s, fdown, yoffset) ==
    IF fdown /\ s.flashlight_active = 1
    THEN LET d1 == IF yoffset > 0 THEN s.flashlight_distance + ScrollStep
                   ELSE IF yoffset < 0 THEN s.flashlight_distance - ScrollStep
                   ELSE s.flashlight_distance
             d2 == IF d1 < DistanceMin THEN DistanceMin ELSE d1
             d3 == IF d2 > DistanceMax THEN DistanceMax ELSE d2
         IN  [ s EXCEPT !.flashlight_distance = d3 ]
    ELSE s


----------------------------------------------------------------------------
(* tavern_renderer.c: render_cube_shadow_map.                              *)

\* vec3_t directions[6], in millimetres (1.0f = 1000); faces are 0..5.
\* (directionsSwappedY is the variant with +Y and -Y exchanged, against which
\* C7 is tested.)
directionsSwappedY ==
    [ face \in 0 .. (CubeFaces - 1) |->
        << vec3(1000, 0, 0), vec3(-1000, 0, 0), vec3(0, -1000, 0),
           vec3(0, 1000, 0), vec3(0, 0, 1000), vec3(0, 0, -1000) >>[face + 1] ]
directions ==
    [ face \in 0 .. (CubeFaces - 1) |->
        << vec3(1000, 0, 0), vec3(-1000, 0, 0), vec3(0, 1000, 0),
           vec3(0, -1000, 0), vec3(0, 0, 1000), vec3(0, 0, -1000) >>[face + 1] ]

\* vec3_t ups[6].  (upsAllMinusY is the variant with -Y on every face, against
\* which C8 is tested.)
upsAllMinusY == [ face \in 0 .. (CubeFaces - 1) |-> vec3(0, -1000, 0) ]
ups ==
    [ face \in 0 .. (CubeFaces - 1) |->
        << vec3(0, -1000, 0), vec3(0, -1000, 0), vec3(0, 0, 1000),
           vec3(0, 0, -1000), vec3(0, -1000, 0), vec3(0, -1000, 0) >>[face + 1] ]

\* The loop over the six faces: for each face the arguments of m4_look_at,
\* the cube-map target attached (as an offset from
\* GL_TEXTURE_CUBE_MAP_POSITIVE_X) and one call of render_scene_func, all
\* under the 512 x 512 viewport and the light's framebuffer.
render_cube_shadow_map(light) ==
    [ k \in 1 .. CubeFaces |->
        LET face == k - 1
            target == v3_add(light.position, directions[face])
        IN  [ framebuffer |-> light.shadowFBO,
              viewport    |-> << 512, 512 >>,
              attachment  |-> face,
              cubeMap     |-> light.shadowCubeMap,
              eye         |-> light.position,
              target      |-> target,
              up          |-> ups[face],
              scene_draws |-> 1 ] ]

----------------------------------------------------------------------------
(* OpenGL object names.  glGen* hands out names that are not in use; the   *)
(* model gives every creator its own block of names so that no two objects *)
(* share one: the shadow framebuffer/cube-map pairs are 1, 2, ... in the   *)
(* order of creation, the render targets of main_state_init and the        *)
(* material textures follow from the bases below.  0 is the default        *)
(* framebuffer, and the texture name of a texture that was never made.     *)

TargetNames == 100
MaterialNames == 200

----------------------------------------------------------------------------
(* tavern_renderer.c: the G-buffer.                                        *)

\* glTexImage2D(GL_TEXTURE_2D, 0, internalformat, width, height, ...)
TexImage2D(internalformat, width, height) ==
    [ internalformat |-> internalformat, width |-> width, height |-> height ]

\* gbuffer_init: the GBuffer fields, and on the GL side the storage of each
\* texture made (textures), what the framebuffer has attached (attachments)
\* and the colour attachments enabled by glDrawBuffers.
\* (gbuffer_init_square is the variant that allocates the depth target
\* width x width, against which C14 is tested.)
gbuffer_init_square(width, height) ==
    [ width |-> width, height |-> height,
      framebuffer |-> TargetNames + 1,
      gPosition |-> TargetNames + 1, gNormal |-> TargetNames + 2,
      gAlbedoSpec |-> TargetNames + 3, depthBuffer |-> TargetNames + 4,
      textures |-> [ t \in (TargetNames + 1) .. (TargetNames + 4) |->
                       IF t = TargetNames + 1 THEN TexImage2D("GL_RGB16F", width, height)
                       ELSE IF t = TargetNames + 2 THEN TexImage2D("GL_RGB16F", width, height)
                       ELSE IF t = TargetNames + 3 THEN TexImage2D("GL_RGBA", width, height)
                       ELSE TexImage2D("GL_DEPTH_COMPONENT", width, width) ],
      attachments |-> [ GL_COLOR_ATTACHMENT0 |-> TargetNames + 1,
                        GL_COLOR_ATTACHMENT1 |-> TargetNames + 2,
                        GL_COLOR_ATTACHMENT2 |-> TargetNames + 3,
                        GL_DEPTH_ATTACHMENT  |-> TargetNames + 4 ],
      drawBuffers |-> << "GL_COLOR_ATTACHMENT0", "GL_COLOR_ATTACHMENT1",
                         "GL_COLOR_ATTACHMENT2" >> ]
gbuffer_init(width, height) ==
    [ width |-> width, height |-> height,
      framebuffer |-> TargetNames + 1,
      gPosition |-> TargetNames + 1, gNormal |-> TargetNames + 2,
      gAlbedoSpec |-> TargetNames + 3, depthBuffer |-> TargetNames + 4,
      textures |-> [ t \in (TargetNames + 1) .. (TargetNames + 4) |->
                       IF t = TargetNames + 1 THEN TexImage2D("GL_RGB16F", width, height)
                       ELSE IF t = TargetNames + 2 THEN TexImage2D("GL_RGB16F", width, height)
                       ELSE IF t = TargetNames + 3 THEN TexImage2D("GL_RGBA", width, height)
                       ELSE TexImage2D("GL_DEPTH_COMPONENT", width, height) ],
      attachments |-> [ GL_COLOR_ATTACHMENT0 |-> TargetNames + 1,
                        GL_COLOR_ATTACHMENT1 |-> TargetNames + 2,
                        GL_COLOR_ATTACHMENT2 |-> TargetNames + 3,
                        GL_DEPTH_ATTACHMENT  |-> TargetNames + 4 ],
      drawBuffers |-> << "GL_COLOR_ATTACHMENT0", "GL_COLOR_ATTACHMENT1",
                         "GL_COLOR_ATTACHMENT2" >> ]

\* gbuffer_bind_for_writing: the three GL calls, in order.
\* (gbuffer_bind_without_clear is the variant that leaves out glClear,
\* against which C15 is tested; gbuffer_bind_without_viewport is the variant
\* that leaves out glViewport, against which C30 is tested.)
gbuffer_bind_without_viewport(g) ==
    << [ op |-> "BindFramebuffer", framebuffer |-> g.framebuffer ],
       [ op |-> "Clear" ] >>
gbuffer_bind_without_clear(g) ==
    << [ op |-> "BindFramebuffer", framebuffer |-> g.framebuffer ],
       [ op |-> "Viewport", width |-> g.width, height |-> g.height ] >>
gbuffer_bind_for_writing(g) ==
    << [ op |-> "BindFramebuffer", framebuffer |-> g.framebuffer ],
       [ op |-> "Viewport", width |-> g.width, height |-> g.height ],
       [ op |-> "Clear" ] >>

\* gbuffer_bind_for_reading: framebuffer 0, then texture units 0, 1, 2.
gbuffer_bind_for_reading(g) ==
    << [ op |-> "BindFramebuffer", framebuffer |-> 0 ],
       [ op |-> "BindTexture", unit |-> 0, texture |-> g.gPosition ],
       [ op |-> "BindTexture", unit |-> 1, texture |-> g.gNormal ],
       [ op |-> "BindTexture", unit |-> 2, texture |-> g.gAlbedoSpec ] >>

\* The window main.c opens, and the G-buffer and the SSAO target that
\* main_state_init makes for it.
WindowWidth == 1280
WindowHeight == 720
gbuffer == gbuffer_init(WindowWidth, WindowHeight)
ssaoFBO == TargetNames + 3
ssaoColorBuffer == TargetNames + 6

----------------------------------------------------------------------------
(* main_state.c: materials and the texture manager.                        *)

\* The materials of the TextureManager, in the order texture_manager_init
\* initialises them; floor_material is initialised but given no texture.
MaterialOrder ==
    << "wooden_barrel", "round_table", "wooden_bench", "wall_candle", "beer_mug",
       "green_bottle", "food_plate", "wooden_stool", "floor_material" >>
Materials == { MaterialOrder[k] : k \in 1 .. Len(MaterialOrder) }
Textured == Materials \ { "floor_material" }

\* The image files texture_manager_init asks for.
DiffusePath(m) ==
    IF m = "beer_mug" THEN "res/textures/beer_mug_diffuse.png"
    ELSE "res/textures/" \o m \o "_shaded.png"
NormalPath(m) == "res/textures/" \o m \o "_normal.png"
TextureFiles == { DiffusePath(m) : m \in Textured } \cup { NormalPath(m) : m \in Textured }

\* material_init: no texture object yet, no maps.
material_init ==
    [ diffuse |-> 0, normal |-> 0, specular |-> 0,
      has_normal_map |-> 0, has_specular_map |-> 0 ]

\* material_load_diffuse: loaded says whether rafgl_raster_load_from_image
\* returned 0; name is what glGenTextures hands out.  A failure only prints.
material_load_diffuse(mat, loaded, name) ==
    IF loaded THEN [ mat EXCEPT !.diffuse = name ] ELSE mat

\* material_load_normal: the flag follows the outcome of the load.
\* (material_load_normal_flagged is the variant that sets the flag whatever
\* the outcome, against which C25 is tested.)
material_load_normal_flagged(mat, loaded, name) ==
    IF loaded THEN [ mat EXCEPT !.normal = name, !.has_normal_map = 1 ]
    ELSE [ mat EXCEPT !.has_normal_map = 1 ]
material_load_normal(mat, loaded, name) ==
    IF loaded THEN [ mat EXCEPT !.normal = name, !.has_normal_map = 1 ]
    ELSE [ mat EXCEPT !.has_normal_map = 0 ]

\* texture_manager_init, with the set of image files that can be loaded.
texture_manager_init(present) ==
    [ m \in Materials |->
        IF m \in Textured
        THEN LET k == CHOOSE i \in 1 .. Len(MaterialOrder) : MaterialOrder[i] = m
             IN  material_load_normal(
                     material_load_diffuse(material_init, DiffusePath(m) \in present,
                                           MaterialNames + 2 * k - 1),
                     NormalPath(m) \in present, MaterialNames + 2 * k)
        ELSE material_init ]

\* The uniforms and texture units of gbuffer_program that the geometry pass
\* sets; material is the Material the last material_bind was given ("none"
\* once a flat colour has been set since).
NoUniforms ==
    [ hasTexture |-> 0, materialColor |-> vec3(0, 0, 0), texture_diffuse1 |-> 0,
      hasNormalMap |-> 0, texture_normal1 |-> 0, material |-> "none" ]

\* material_bind(&texture_manager.<m>, gbuffer_program) followed by the
\* caller's glUniform1f(hasTexture, 1.0f).
material_bind(u, tm, m) ==
    [ u EXCEPT !.texture_diffuse1 = tm[m].diffuse,
               !.hasNormalMap = tm[m].has_normal_map,
               !.texture_normal1 = IF tm[m].has_normal_map = 1 THEN tm[m].normal
                                   ELSE u.texture_normal1,
               !.hasTexture = 1,
               !.material = m ]

\* glUniform3f(materialColor, ...) followed by glUniform1f(hasTexture, 0.0f);
\* colours in thousandths.
FlatColor(u, color) ==
    [ u EXCEPT !.materialColor = color, !.hasTexture = 0, !.material = "none" ]

----------------------------------------------------------------------------
(* main_state.c: the scene.  A mesh instance is a mesh and its model       *)
(* matrix; the matrix is kept as its factors: translation (millimetres),   *)
(* rotation about y (tenths of a degree) and scaling (thousandths).        *)

Model(translation, rotation_y, scaling) ==
    [ translation |-> translation, rotation_y |-> rotation_y, scaling |-> scaling ]
Instance(mesh, model) == [ mesh |-> mesh, model |-> model ]

\* float table_positions[][2] and barrel_positions[][2] (x, z).
table_positions == << << -3500, 1000 >>, << -1000, 3500 >>, << 1500, 500 >> >>
barrel_positions == << << 4500, 4000 >>, << -4500, 4000 >>, << -4500, -1000 >>,
                       << 2000, 4000 >> >>

\* The instances of the scene; i and stool count from 0 as in the loops.
\* render_scene_geometry and the geometry pass of main_state_render spell
\* out the same matrices for each of them.
Floor == Instance("floor_mesh", Model(vec3(0, 0, 0), 0, vec3(1000, 1000, 1000)))
Walls ==
    << Instance("cube_mesh", Model(vec3(0, 2000, -5500), 0, vec3(11000, 4000, 200))),
       Instance("cube_mesh", Model(vec3(-5500, 2000, 0), 0, vec3(200, 4000, 11000))),
       Instance("cube_mesh", Model(vec3(5500, 2000, 0), 0, vec3(200, 4000, 11000))),
       Instance("cube_mesh", Model(vec3(-3000, 2000, 5500), 0, vec3(5000, 4000, 200))),
       Instance("cube_mesh", Model(vec3(3000, 2000, 5500), 0, vec3(5000, 4000, 200))),
       Instance("cube_mesh", Model(vec3(0, 3000, 5500), 0, vec3(2000, 2000, 200))) >>
BarCounter ==
    Instance("bench_mesh", Model(vec3(3500, 0, -2000), 0, vec3(4500, 1200, 1500)))
BarMug(i) ==
    Instance("beer_mug_mesh",
             Model(vec3(2000 + i * 800 - 1000, 950, -2000), 0, vec3(120, 120, 120)))
BarBottle(i) ==
    Instance("green_bottle_mesh",
             Model(vec3(4000 + i * 800 - 400, 620, -1800), 0, vec3(100, 100, 100)))
RoundTable(i) ==
    Instance("table_round_mesh",
             Model(vec3(table_positions[i + 1][1], 0, table_positions[i + 1][2]), 0,
                   vec3(700, 700, 700)))
Stool(i, stool) ==
    LET angle   == stool * 1200
        stool_x == table_positions[i + 1][1] + DivT(cos1000(angle) * 1500, 1000)
        stool_z == table_positions[i + 1][2] + DivT(sin1000(angle) * 1500, 1000)
    IN  Instance("stool_mesh", Model(vec3(stool_x, 0, stool_z), 0, vec3(400, 400, 400)))
Barrel(i) ==
    Instance("barrel_mesh",
             Model(vec3(barrel_positions[i + 1][1], 0, barrel_positions[i + 1][2]), 0,
                   vec3(800, 800, 800)))
Fireplace == Instance("cube_mesh", Model(vec3(-4500, 1000, -4000), 0, vec3(1000, 2000, 1000)))
WallCandleMesh(i) ==
    Instance("wall_candle_mesh",
             Model(wall_candles[i + 1].position,
                   IF i = 1 THEN 900 ELSE IF i = 2 THEN -900 ELSE 0,
                   vec3(400, 400, 400)))
\* table_candles[i].flame_offset as the last update left it.
flame_offset(t, i) ==
    LET ph == Phase(t, table_candles[i + 1])
    IN  vec3(Wobble(10, ph, 21), Wobble(20, ph, 17), Wobble(10, ph, 23))
CandleBase(i) ==
    Instance("candle_base_mesh",
             Model(table_candles[i + 1].base_position, 0, vec3(300, 800, 300)))
CandleFlame(t, i) ==
    Instance("candle_flame_mesh",
             Model(v3_add(table_candles[i + 1].base_position,
                          v3_add(flame_offset(t, i), vec3(0, 120, 0))), 0,
                   vec3(200, 400, 200)))
\* Items on the dining tables: a mug on table 0, a plate and a bottle on table 1.
TableMug ==
    Instance("beer_mug_mesh",
             Model(vec3(table_positions[1][1], 1400, table_positions[1][2]), 0,
                   vec3(100, 100, 100)))
TablePlate ==
    Instance("food_plate_mesh",
             Model(vec3(table_positions[2][1], 1400, table_positions[2][2]), 0,
                   vec3(150, 150, 150)))
TableBottle ==
    Instance("green_bottle_mesh",
             Model(vec3(table_positions[2][1] + 300, 1400, table_positions[2][2] + 200), 0,
                   vec3(80, 80, 80)))

\* The stools of the three tables, table by table (worked out once).
Stools == [ i \in 0 .. 2 |-> [ stool \in 0 .. 2 |-> Stool(i, stool) ] ]

\* render_scene_geometry up to the table candles: these instances do not
\* move.
StaticScene ==
    << Floor >> \o Walls \o << BarCounter >>
    \o [ k \in 1 .. 4 |-> BarMug(k - 1) ]
    \o [ k \in 1 .. 2 |-> BarBottle(k - 1) ]
    \o [ k \in 1 .. 12 |->
           IF (k - 1) % 4 = 0 THEN RoundTable((k - 1) \div 4)
           ELSE Stools[(k - 1) \div 4][((k - 1) % 4) - 1] ]
    \o [ k \in 1 .. 4 |-> Barrel(k - 1) ]
    \o << Fireplace >>
    \o [ k \in 1 .. NumWallCandles |-> WallCandleMesh(k - 1) ]

\* The table-candle loop of either pass: base, then flame, per candle.
TableCandleMeshes(t) ==
    [ k \in 1 .. 2 * NumTableCandles |->
        IF k % 2 = 1 THEN CandleBase((k - 1) \div 2)
        ELSE CandleFlame(t, (k - 1) \div 2) ]

\* render_scene_geometry: the instances one call draws, in order.
render_scene_geometry(s) == StaticScene \o TableCandleMeshes(s.animation_time)

\* One glDrawArrays of the geometry pass, under the uniforms then in force.
Draw(instance, u) ==
    [ op |-> "Draw", mesh |-> instance.mesh, model |-> instance.model, uniforms |-> u ]

\* The draws of the geometry pass, in order.  The uniforms are threaded
\* through the statements: u with a suffix is the state after the
\* material_bind or colour statement that precedes the draws named (the wax
\* colour set again for the second and third candle gives uBase again).
\* Every uniform is set in the pass before the first draw that uses it, so
\* the values an earlier frame left behind are not tracked.
GeometryDraws(s) ==
    LET tm      == s.texture_manager
        uFloor  == FlatColor(NoUniforms, vec3(500, 350, 200))
        uWalls  == FlatColor(uFloor, vec3(500, 300, 200))
        uBar    == material_bind(uWalls, tm, "wooden_bench")
        uTable0 == material_bind(uBar, tm, "round_table")
        uStool0 == material_bind(uTable0, tm, "wooden_stool")
        uTable1 == material_bind(uStool0, tm, "round_table")
        uStool1 == material_bind(uTable1, tm, "wooden_stool")
        uTable2 == material_bind(uStool1, tm, "round_table")
        uStool2 == material_bind(uTable2, tm, "wooden_stool")
        uTable3 == material_bind(uStool2, tm, "round_table")
        uMugs   == material_bind(uTable3, tm, "beer_mug")
        uBottle == material_bind(uMugs, tm, "green_bottle")
        uMug    == material_bind(uBottle, tm, "beer_mug")
        uPlate  == material_bind(uMug, tm, "food_plate")
        uBottl1 == material_bind(uPlate, tm, "green_bottle")
        uFire   == FlatColor(uBottl1, vec3(300, 300, 300))
        uBarrel == material_bind(uFire, tm, "wooden_barrel")
        uCandle == IF NumWallCandles > 0 THEN material_bind(uBarrel, tm, "wall_candle")
                   ELSE uBarrel
        uBase   == FlatColor(uCandle, vec3(950, 950, 900))
        uFlame  == FlatColor(uBase, vec3(1000, 700, 200))
        candles == TableCandleMeshes(s.animation_time)
    IN  << Draw(Floor, uFloor) >>
        \o [ k \in 1 .. 6 |-> Draw(Walls[k], uWalls) ]
        \o << Draw(BarCounter, uBar) >>
        \o << Draw(RoundTable(0), uTable0) >>
        \o [ k \in 1 .. 3 |-> Draw(Stools[0][k - 1], uStool0) ]
        \o << Draw(RoundTable(1), uTable1) >>
        \o [ k \in 1 .. 3 |-> Draw(Stools[1][k - 1], uStool1) ]
        \o << Draw(RoundTable(2), uTable2) >>
        \o [ k \in 1 .. 3 |-> Draw(Stools[2][k - 1], uStool2) ]
        \o [ k \in 1 .. 4 |-> Draw(BarMug(k - 1), uMugs) ]
        \o [ k \in 1 .. 2 |-> Draw(BarBottle(k - 1), uBottle) ]
        \o << Draw(TableMug, uMug), Draw(TablePlate, uPlate), Draw(TableBottle, uBottl1),
              Draw(Fireplace, uFire) >>
        \o [ k \in 1 .. 4 |-> Draw(Barrel(k - 1), uBarrel) ]
        \o [ k \in 1 .. NumWallCandles |-> Draw(WallCandleMesh(k - 1), uCandle) ]
        \o [ k \in 1 .. 2 * NumTableCandles |->
               Draw(candles[k], IF k % 2 = 1 THEN uBase ELSE uFlame) ]

----------------------------------------------------------------------------
(* main_state.c: main_state_render (shadow pass and lighting uniforms).    *)

\* int num_shadow_lights = base_num_lights; if (flashlight_active) ... = num_lights
\* (Variants: num_shadow_lights_candles_only never includes the flashlight,
\* against which C9 is tested; num_shadow_lights_by_mode leaves the candles out
\* in flashlight-only mode, against which C10 is tested.)
num_shadow_lights_candles_only(s) == s.base_num_lights
num_shadow_lights_by_mode(s) ==
    IF s.flashlight_only_shadows = 1
    THEN (IF s.flashlight_active = 1 THEN 1 ELSE 0)
    ELSE IF s.flashlight_active = 1 THEN s.num_lights ELSE s.base_num_lights
num_shadow_lights(s) ==
    IF s.flashlight_active = 1 THEN s.num_lights ELSE s.base_num_lights

\* The shadow pass: one render_cube_shadow_map per shadow light, in order.
ShadowPass(s) ==
    [ k \in 1 .. num_shadow_lights(s) |->
        [ light |-> k - 1, faces |-> render_cube_shadow_map(s.lights[k - 1]) ] ]

\* The lighting pass: shadow maps bound (texture unit 4 + i), the shadow
\* mode uniform, numLights and the lights[i] uniforms.
\* (LightingPassCandleShadows is the variant that binds the candles' shadow
\* maps only, against which C28 is tested.)
LightingPassCandleShadows(s) ==
    LET active_shadow_lights == s.base_num_lights
    IN  [ shadowMaps |-> [ i \in { j \in 0 .. (active_shadow_lights - 1) : j < 8 } |->
                             [ unit |-> 4 + i, cubeMap |-> s.lights[i].shadowCubeMap ] ],
          flashlightOnlyShadows |-> s.flashlight_only_shadows,
          numLights |-> s.num_lights,
          lights |-> [ i \in 0 .. (s.num_lights - 1) |->
                         [ Position |-> s.lights[i].position,
                           Color    |-> s.lights[i].color,
                           Radius   |-> s.lights[i].radius ] ] ]
LightingPass(s) ==
    LET active_shadow_lights ==
            IF s.flashlight_active = 1 THEN s.num_lights ELSE s.base_num_lights
    IN  [ shadowMaps |-> [ i \in { j \in 0 .. (active_shadow_lights - 1) : j < 8 } |->
                             [ unit |-> 4 + i, cubeMap |-> s.lights[i].shadowCubeMap ] ],
          flashlightOnlyShadows |-> s.flashlight_only_shadows,
          numLights |-> s.num_lights,
          lights |-> [ i \in 0 .. (s.num_lights - 1) |->
                         [ Position |-> s.lights[i].position,
                           Color    |-> s.lights[i].color,
                           Radius   |-> s.lights[i].radius ] ] ]

----------------------------------------------------------------------------
(* main_state.c: main_state_render as the sequence of GL calls that bind   *)
(* or write render targets.  One call of render_scene_func is one entry    *)
(* ("Scene"): what it draws is render_scene_geometry.                      *)

BindFramebuffer(framebuffer) == [ op |-> "BindFramebuffer", framebuffer |-> framebuffer ]
BindTexture(unit, texture) == [ op |-> "BindTexture", unit |-> unit, texture |-> texture ]
UseProgram(program) == [ op |-> "UseProgram", program |-> program ]

\* The calls of render_cube_shadow_map for one light.
cube_shadow_map_calls(light) ==
    << BindFramebuffer(light.shadowFBO),
       [ op |-> "Viewport", width |-> 512, height |-> 512 ],
       UseProgram("shadows") >>
    \o [ k \in 1 .. 3 * CubeFaces |->
           IF k % 3 = 1
           THEN [ op |-> "FramebufferTexture", attachment |-> "GL_DEPTH_ATTACHMENT",
                  face |-> (k - 1) \div 3, texture |-> light.shadowCubeMap ]
           ELSE IF k % 3 = 2 THEN [ op |-> "Clear" ]
           ELSE [ op |-> "Scene" ] ]
    \o << BindFramebuffer(0) >>

\* The shadow pass: the calls for lights[0 .. num_shadow_lights - 1], in order.
RECURSIVE ShadowCalls(_, _)
ShadowCalls(s, n) ==
    IF n = 0 THEN << >>
    ELSE ShadowCalls(s, n - 1) \o cube_shadow_map_calls(s.lights[n - 1])

\* Geometry pass - render to G-Buffer.
GeometryCalls(s) ==
    gbuffer_bind_for_writing(gbuffer) \o << UseProgram("gbuffer") >> \o GeometryDraws(s)

\* SSAO pass.
SsaoCalls ==
    << BindFramebuffer(ssaoFBO), [ op |-> "Clear" ], UseProgram("ssao"),
       BindTexture(0, gbuffer.gPosition), BindTexture(1, gbuffer.gNormal),
       [ op |-> "Quad" ] >>

\* Lighting pass - render directly to screen.
LightingCalls(s) ==
    LET active_shadow_lights ==
            IF s.flashlight_active = 1 THEN s.num_lights ELSE s.base_num_lights
        bound == { j \in 0 .. (active_shadow_lights - 1) : j < 8 }
    IN  << BindFramebuffer(0), [ op |-> "Clear" ], UseProgram("deferred") >>
        \o gbuffer_bind_for_reading(gbuffer)
        \o << BindTexture(3, ssaoColorBuffer) >>
        \o [ k \in 1 .. Cardinality(bound) |->
               BindTexture(4 + (k - 1), s.lights[k - 1].shadowCubeMap) ]
        \o << [ op |-> "Quad" ] >>

\* The four passes in statement order.
\* (RenderCallsSsaoFirst is the variant with the SSAO pass ahead of the
\* geometry pass, against which C16 is tested.)
RenderCallsSsaoFirst(s) ==
    ShadowCalls(s, num_shadow_lights(s)) \o SsaoCalls \o GeometryCalls(s)
    \o LightingCalls(s)
RenderCalls(s) ==
    ShadowCalls(s, num_shadow_lights(s)) \o GeometryCalls(s) \o SsaoCalls
    \o LightingCalls(s)

----------------------------------------------------------------------------
(* main_state.c: main_state_render, what one frame issues: the shadow pass *)
(* per light and face, the lighting uniforms, the GL calls in order, and   *)
(* the instances each render_scene_func call draws.                        *)

main_state_render(s) ==
    [ rendered |-> TRUE, shadow |-> ShadowPass(s), lighting |-> LightingPass(s),
      calls |-> RenderCalls(s), scene |-> render_scene_geometry(s) ]

NoFrame == [ rendered |-> FALSE ]


----------------------------------------------------------------------------
(* The state machine.                                                      *)

\* The program state as one record, and its write-back.
S == [ camera |-> camera, mouse |-> mouse, lights |-> lights,
       num_lights |-> num_lights, base_num_lights |-> base_num_lights,
       flashlight_active |-> flashlight_active,
       flashlight_distance |-> flashlight_distance,
       global_light_radius |-> global_light_radius,
       flashlight_only_shadows |-> flashlight_only_shadows,
       animation_time |-> animation_time,
       startup_flashlight_timer |-> startup_flashlight_timer,
       pressed |-> pressed, shadow_resources |-> shadow_resources,
       texture_manager |-> texture_manager ]

Commit(s) ==
    /\ camera' = s.camera
    /\ mouse' = s.mouse
    /\ lights' = s.lights
    /\ num_lights' = s.num_lights
    /\ base_num_lights' = s.base_num_lights
    /\ flashlight_active' = s.flashlight_active
    /\ flashlight_distance' = s.flashlight_distance
    /\ global_light_radius' = s.global_light_radius
    /\ flashlight_only_shadows' = s.flashlight_only_shadows
    /\ animation_time' = s.animation_time
    /\ startup_flashlight_timer' = s.startup_flashlight_timer
    /\ pressed' = s.pressed
    /\ shadow_resources' = s.shadow_resources
    /\ texture_manager' = s.texture_manager

program == << camera, mouse, lights, num_lights, base_num_lights,
              flashlight_active, flashlight_distance, global_light_radius,
              flashlight_only_shadows, animation_time, startup_flashlight_timer,
              pressed, shadow_resources, texture_manager >>

\* The flashlight lit by main_state_init (white) is still on.
StartupPulse ==
    /\ flashlight_active = 1
    /\ lights[base_num_lights].color = vec3(1000, 1000, 1000)

NoProbe == [ n0 |-> -1, strokes |-> 0, after |-> -1, scroll |-> << >>,
             m0 |-> -1, tabs |-> 0, files |-> TextureFiles, released |-> 0 ]
NoCube == [ light |-> NoLight, out |-> << >> ]
NoGB == [ width |-> 0, height |-> 0, out |-> << >>, calls |-> << >> ]

\* History only: a full F key stroke (press, then release) has been handled
\* when an update sees F up while f_key_pressed is still set.  probe.scroll
\* holds the inputs (F held, yoffset) of the last scroll event since the last
\* update.  probe.tabs counts, up to 3, the TAB presses handled since the
\* shadow mode was noted in probe.m0.  probe.files is the set of image files
\* that could be loaded when the materials were made.  probe.released is 1
\* once an update has seen F up.
TabsAfter(down) ==
    IF probe.m0 >= 0 /\ probe.tabs < 3 /\ "TAB" \in down /\ pressed.tab = 0
    THEN probe.tabs + 1
    ELSE probe.tabs
ReleasedAfter(down) == IF "F" \notin down THEN 1 ELSE probe.released
ProbeAfter(down, s) ==
    IF probe.n0 >= 0 /\ probe.strokes < 2 /\ "F" \notin down /\ pressed.f = 1
    THEN [ probe EXCEPT !.strokes = probe.strokes + 1,
                        !.after = IF probe.strokes = 1 THEN s.num_lights ELSE probe.after,
                        !.scroll = << >>,
                        !.tabs = TabsAfter(down),
                        !.released = ReleasedAfter(down) ]
    ELSE [ probe EXCEPT !.scroll = << >>, !.tabs = TabsAfter(down),
                        !.released = ReleasedAfter(down) ]

\* The state after main_state_init, but for the materials, which depend on
\* the image files found.
Constructed ==
    /\ camera = main_state_init.camera
    /\ mouse = main_state_init.mouse
    /\ lights = main_state_init.lights
    /\ num_lights = main_state_init.num_lights
    /\ base_num_lights = main_state_init.base_num_lights
    /\ flashlight_active = main_state_init.flashlight_active
    /\ flashlight_distance = main_state_init.flashlight_distance
    /\ global_light_radius = main_state_init.global_light_radius
    /\ flashlight_only_shadows = main_state_init.flashlight_only_shadows
    /\ animation_time = main_state_init.animation_time
    /\ startup_flashlight_timer = main_state_init.startup_flashlight_timer
    /\ pressed = main_state_init.pressed
    /\ shadow_resources = main_state_init.shadow_resources
    /\ phase = "update"
    /\ frame = NoFrame

\* Every image file of res/textures is there.
Init ==
    /\ Constructed
    /\ texture_manager = texture_manager_init(TextureFiles)
    /\ probe = NoProbe
    /\ cube = NoCube
    /\ gb = NoGB

\* One frame's main_state_update, with the keys held, the cursor position
\* and delta_time drawn from the given sets.
Update(Keys, Cursor, Dts) ==
    /\ phase = "update"
    /\ \E down \in SUBSET Keys, xpos \in Cursor, ypos \in Cursor, dt \in Dts :
         /\ animation_time + dt <= MaxTime
         /\ \E s \in { main_state_update(S, down, xpos, ypos, dt) } :
                Commit(s) /\ probe' = ProbeAfter(down, s)
    /\ phase' = "render"
    /\ UNCHANGED << frame, cube, gb >>

\* One frame's main_state_render.
Render ==
    /\ phase = "render"
    /\ frame' = main_state_render(S)
    /\ phase' = "update"
    /\ UNCHANGED << program, cube, gb, probe >>

\* A scroll event delivered while events are polled, before the update,
\* with yoffset drawn from the given set.
Scroll(Offsets) ==
    /\ phase = "update"
    /\ \E fdown \in BOOLEAN, yoffset \in Offsets :
         /\ Commit(scroll_callback(S, fdown, yoffset))
         /\ probe' = [ probe EXCEPT !.scroll = << fdown, yoffset >> ]
    /\ UNCHANGED << phase, frame, cube, gb >>

\* History only: note num_lights before a pair of F key strokes, in any
\* state where the startup pulse is over and F is not down.
Observe ==
    /\ probe.n0 = -1
    /\ ~StartupPulse
    /\ pressed.f = 0
    /\ probe' = [ probe EXCEPT !.n0 = num_lights ]
    /\ UNCHANGED << program, phase, frame, cube, gb >>

\* History only: note the shadow mode before TAB presses are counted, in
\* any state where TAB is not down.
ObserveMode ==
    /\ probe.m0 = -1
    /\ pressed.tab = 0
    /\ probe' = [ probe EXCEPT !.m0 = flashlight_only_shadows ]
    /\ UNCHANGED << program, phase, frame, cube, gb >>

\* Flashlight and shadow-mode controls.
FlashKeys == { "F", "TAB" }
Next == Update(FlashKeys, { 0 }, { 2, 3 }) \/ Render \/ Observe
Spec == Init /\ [][Next]_vars

\* F is never pressed; updates and renders keep arriving.
StartupKeys == { "TAB" }
NextStartup == Update(StartupKeys, { 0 }, { 1, 2, 3 }) \/ Render
SpecStartup ==
    /\ Init
    /\ [][NextStartup]_vars
    /\ WF_vars(Update(StartupKeys, { 0 }, { 1, 2, 3 }))
    /\ WF_vars(Render)

\* Radius controls (with the flashlight key).
RadiusKeySet == { "Q", "E", "F" }
NextRadius == Update(RadiusKeySet, { 0 }, { 1 }) \/ Render
SpecRadius == Init /\ [][NextRadius]_vars

\* Mouse look.
CursorSet == { 0, 500, MaxCursor }
NextCamera == Update({ }, CursorSet, { 1 }) \/ Render
SpecCamera == Init /\ [][NextCamera]_vars

\* render_cube_shadow_map applied to a light at any grid position.
GridCoords == { 1000 * c : c \in (-MaxCoord) .. MaxCoord }
InitCube ==
    /\ Constructed
    /\ texture_manager = texture_manager_init(TextureFiles)
    /\ probe = NoProbe
    /\ gb = NoGB
    /\ \E x \in GridCoords, y \in GridCoords, z \in GridCoords :
         cube = [ light |-> setup_point_light_shadows(
                                [ NoLight EXCEPT !.position = vec3(x, y, z) ], 0),
                  out |-> << >> ]
CubeRender ==
    /\ cube.out = << >>
    /\ cube' = [ cube EXCEPT !.out = render_cube_shadow_map(cube.light) ]
    /\ UNCHANGED << program, phase, frame, gb, probe >>
NextCube == CubeRender
SpecCube == InitCube /\ [][NextCube]_vars

\* Image files may be missing: up to MaxMissing of the files that
\* texture_manager_init asks for cannot be loaded.
InitMaterials ==
    /\ Constructed
    /\ \E missing \in SUBSET TextureFiles :
         /\ Cardinality(missing) <= MaxMissing
         /\ texture_manager = texture_manager_init(TextureFiles \ missing)
         /\ probe = [ NoProbe EXCEPT !.files = TextureFiles \ missing ]
    /\ cube = NoCube
    /\ gb = NoGB
NextMaterials == Update({ }, { 0 }, { 10 }) \/ Render
SpecMaterials == InitMaterials /\ [][NextMaterials]_vars

\* gbuffer_init applied to any width and height, then
\* gbuffer_bind_for_writing applied to the GBuffer it filled in.
InitGBuffer ==
    /\ Constructed
    /\ texture_manager = texture_manager_init(TextureFiles)
    /\ probe = NoProbe
    /\ cube = NoCube
    /\ \E width \in 1 .. MaxSize, height \in 1 .. MaxSize :
         gb = [ NoGB EXCEPT !.width = width, !.height = height ]
GBufferInit ==
    /\ gb.out = << >>
    /\ gb' = [ gb EXCEPT !.out = << gbuffer_init(gb.width, gb.height) >> ]
    /\ UNCHANGED << program, phase, frame, cube, probe >>
GBufferBind ==
    /\ gb.out # << >>
    /\ gb.calls = << >>
    /\ gb' = [ gb EXCEPT !.calls = gbuffer_bind_for_writing(gb.out[1]) ]
    /\ UNCHANGED << program, phase, frame, cube, probe >>
NextGBuffer == GBufferInit \/ GBufferBind
SpecGBuffer == InitGBuffer /\ [][NextGBuffer]_vars

\* The camera moves and turns while the flashlight is switched and pushed
\* forward by the scroll wheel.
FollowKeys == { "W", "F" }
FollowCursor == { 0, 500 }
NextFollow == Update(FollowKeys, FollowCursor, { 13 }) \/ Render \/ Scroll({ 1 })
SpecFollow == Init /\ [][NextFollow]_vars

\* Scroll wheel and reset key (with the flashlight key).
ScrollKeys == { "F", "R" }
NextScroll == Update(ScrollKeys, { 0 }, { 9 }) \/ Render \/ Scroll({ -1, 0, 1 })
SpecScroll == Init /\ [][NextScroll]_vars

\* Reset key, with the flashlight, radius and shadow-mode keys and the wheel.
ResetKeys == { "F", "R", "Q", "TAB" }
NextReset == Update(ResetKeys, { 0 }, { 9 }) \/ Render \/ Scroll({ 1 })
SpecReset == Init /\ [][NextReset]_vars

\* Radius and shadow-mode keys pressed, held and released over four updates.
OnceKeys == { "Q", "E", "TAB" }
NextOnce == Update(OnceKeys, { 0 }, { 6 }) \/ Render
SpecOnce == Init /\ [][NextOnce]_vars

\* Shadow-mode key, with the flashlight key and the wheel.
ModeKeys == { "TAB", "F" }
NextMode == Update(ModeKeys, { 0 }, { 8 }) \/ Render \/ Scroll({ 1 }) \/ ObserveMode
SpecMode == Init /\ [][NextMode]_vars

----------------------------------------------------------------------------
(* Properties.                                                             *)

White == vec3(1000, 1000, 1000)
Warm == vec3(1000, 900, 700)

\* A frame has just been rendered from the current program state.
FrameCurrent == phase = "update" /\ frame.rendered

\* C1: Flashlight toggle idempotence.  From any state in which the startup
\* pulse is over and F is up, two full strokes of the F key (press and
\* release, each seen by main_state_update) leave num_lights at the value it
\* had before the first stroke.
C1_TwoStrokesRestoreCount == probe.strokes = 2 => probe.after = probe.n0

\* Two strokes were observed, and each of them lit a new flashlight.
C1_Witness ==
    /\ probe.strokes = 2
    /\ probe.after = probe.n0
    /\ shadow_resources >= main_state_init.shadow_resources + 2

\* C2: The startup timer affects only the initial flashlight pulse: whenever
\* the startup-timer branch fires (the timer goes from a running value to
\* "completed"), the flashlight it switches off is the white one lit by
\* main_state_init, never one the user lit with F.
C2_TimerSparesUserFlashlight ==
    [][ (startup_flashlight_timer >= 0 /\ startup_flashlight_timer' = TimerDone)
        => lights[base_num_lights].color = White ]_vars

\* While the accumulated update time is at most 0.5 s the startup flashlight
\* is on and the timer equals that time; past 0.5 s it is off and the timer
\* is marked completed.
C3_PulseShape ==
    /\ animation_time <= StartupDelay =>
         /\ flashlight_active = 1
         /\ num_lights = base_num_lights + 1
         /\ startup_flashlight_timer = animation_time
    /\ animation_time > StartupDelay =>
         /\ flashlight_active = 0
         /\ num_lights = base_num_lights
         /\ startup_flashlight_timer = TimerDone

\* The flashlight is off and the timer completed.
C3_PulseOff ==
    /\ flashlight_active = 0
    /\ num_lights = base_num_lights
    /\ startup_flashlight_timer = TimerDone

\* C3: Startup pulse.  With F never pressed, the flashlight lit by
\* main_state_init stays active (num_lights = base_num_lights + 1) as long as
\* the accumulated update time is at most 0.5 s, is off
\* (num_lights = base_num_lights, timer completed) in every state whose
\* accumulated time exceeds 0.5 s, and is eventually off for good: the timer
\* never fires again.
C3_StartupPulse == [] C3_PulseShape /\ <>[] C3_PulseOff

\* The pulse has ended and a frame was rendered without the flashlight.
C3_Witness == C3_PulseOff /\ FrameCurrent /\ animation_time > StartupDelay

\* C4: Light-radius clamp.  After any sequence of Q and E presses (also both
\* in one frame, also with F), global_light_radius and the radius of every
\* candle light stay within [1, 20].
C4_RadiusClamped ==
    /\ global_light_radius \in RadiusMin .. RadiusMax
    /\ \A i \in 0 .. (base_num_lights - 1) :
         lights[i].radius \in RadiusMin .. RadiusMax

\* Q and E were both down in the last update and the radius sits on its
\* upper limit.
C4_Witness ==
    /\ global_light_radius = RadiusMax
    /\ pressed.q = 1 /\ pressed.e = 1
    /\ lights[0].radius = RadiusMax

\* C5: Camera pitch clamp.  After every camera_update the pitch lies in
\* [-89, 89] degrees, whatever the cursor movement.
C5_PitchClamped == camera.pitch \in (-PitchMax) .. PitchMax

\* A cursor jump of MaxCursor pixels left the pitch on its lower limit.
C5_Witness == camera.pitch = -PitchMax /\ mouse.lastY = MaxCursor /\ mouse.firstMouse = 0

\* C6 as stated: the yaw stays within a fixed range; here a full turn either
\* way of the initial heading, wider than any clamp on the pitch.
C6_YawClamped == camera.yaw \in -3600 .. 3600

\* C6 as amended: camera_update does not clamp the yaw; every update adds the
\* cursor's x movement (times the sensitivity) to it, no movement on the
\* first update, and nothing else changes it.
C6_YawAccumulates ==
    [][ camera'.yaw = camera.yaw
            + (IF mouse.firstMouse = 1 THEN 0 ELSE mouse'.lastX - mouse.lastX) ]_vars

\* The yaw has left the range of a full turn.
C6_Witness == camera.yaw < -3600 /\ mouse.firstMouse = 0

\* The canonical axis of cube-map target GL_TEXTURE_CUBE_MAP_POSITIVE_X + a:
\* +X, -X, +Y, -Y, +Z, -Z.
CanonicalAxis(a) ==
    LET sign == IF a % 2 = 0 THEN 1000 ELSE -1000
    IN  [ c \in 1 .. 3 |-> IF c = (a \div 2) + 1 THEN sign ELSE 0 ]

\* The forward vector of a look-at from eye to target.
Forward(v) == v3_sub(v.target, v.eye)

\* C7: Cube-map face order.  render_cube_shadow_map renders six faces; the
\* i-th is attached to GL_TEXTURE_CUBE_MAP_POSITIVE_X + i and looks along
\* that target's canonical axis (+X, -X, +Y, -Y, +Z, -Z in this order).
C7_FaceOrder ==
    cube.out # << >> =>
        /\ Len(cube.out) = CubeFaces
        /\ \A k \in 1 .. Len(cube.out) :
             /\ cube.out[k].attachment = k - 1
             /\ Forward(cube.out[k]) = CanonicalAxis(cube.out[k].attachment)

\* A light at the origin has been rendered.
C7_Witness == cube.out # << >> /\ cube.light.position = vec3(0, 0, 0)

\* C8: For each of the six faces the up vector given to the look-at is not
\* parallel to the forward vector: their cross product is non-zero.
C8_UpNotParallel ==
    \A k \in 1 .. Len(cube.out) :
        v3_cross(Forward(cube.out[k]), cube.out[k].up) # vec3(0, 0, 0)

\* A light away from the origin has been rendered, with the +Y face using
\* +Z as its up vector.
C8_Witness ==
    /\ cube.out # << >>
    /\ cube.light.position = vec3(1000, 1000, 1000)
    /\ cube.out[3].up = vec3(0, 0, 1000)

\* Number of render_scene_func calls in a sequence of face renders, and in
\* a whole shadow pass.
RECURSIVE FaceDraws(_)
FaceDraws(fs) == IF fs = << >> THEN 0 ELSE Head(fs).scene_draws + FaceDraws(Tail(fs))
RECURSIVE PassDraws(_)
PassDraws(ps) == IF ps = << >> THEN 0 ELSE FaceDraws(Head(ps).faces) + PassDraws(Tail(ps))

ShadowLights(f) == { f.shadow[k].light : k \in 1 .. Len(f.shadow) }

\* C9: In every frame the shadow pass renders the scene 6 x num_lights times:
\* six times for each active light, the flashlight included exactly when it
\* is active.
C9_SixPerLight ==
    FrameCurrent =>
        /\ PassDraws(frame.shadow) = CubeFaces * num_lights
        /\ \A k \in 1 .. Len(frame.shadow) :
             FaceDraws(frame.shadow[k].faces) = CubeFaces
        /\ (base_num_lights \in ShadowLights(frame)) <=> (flashlight_active = 1)

\* A frame rendered with a flashlight the user lit.
C9_Witness ==
    /\ FrameCurrent
    /\ flashlight_active = 1
    /\ lights[base_num_lights].color = Warm
    /\ Len(frame.shadow) = base_num_lights + 1

\* C10 as stated: in a frame rendered while flashlight_only_shadows is on,
\* the shadow pass renders a cube map for no light but the flashlight.
C10_OnlyFlashlightRendered ==
    (FrameCurrent /\ flashlight_only_shadows = 1) =>
        \A i \in ShadowLights(frame) : i = base_num_lights

\* C10 as amended: the shadow mode does not change the shadow pass.  In every
\* frame, whatever the mode, a cube map is rendered for every active light
\* (indices below num_lights) and for no other; the mode only reaches the
\* lighting shader, as the uniform flashlightOnlyShadows.
C10_ModeIsOnlyAUniform ==
    FrameCurrent =>
        /\ ShadowLights(frame) = 0 .. (num_lights - 1)
        /\ frame.lighting.flashlightOnlyShadows = flashlight_only_shadows

\* Flashlight-only mode, flashlight off, and still every candle's cube map
\* was rendered.
C10_Witness ==
    /\ FrameCurrent
    /\ flashlight_only_shadows = 1
    /\ flashlight_active = 0
    /\ ShadowLights(frame) = 0 .. (base_num_lights - 1)
    /\ base_num_lights > 0

\* The draws of the geometry pass in a frame.
GeometryPass(f) == { k \in DOMAIN f.calls : f.calls[k].op = "Draw" }

\* C11 as stated: a material whose diffuse texture failed to load is drawn
\* untextured.  In every frame, every draw of the geometry pass issued under
\* a material without a diffuse texture has the hasTexture flag 0.
C11_MissingTextureDrawnFlat ==
    frame.rendered =>
        \A k \in GeometryPass(frame) :
            LET u == frame.calls[k].uniforms
            IN  (u.material # "none" /\ texture_manager[u.material].diffuse = 0)
                    => u.hasTexture = 0

\* The indices at which the program writes lights[]: candle->light_index of
\* every wall and table candle, and the flashlight slot base_num_lights.
LightSlotsWritten ==
    { wall_candles[k].light_index : k \in 1 .. NumWallCandles }
    \cup { table_candles[k].light_index : k \in 1 .. NumTableCandles }
    \cup { base_num_lights }

\* C12: at most 8 point lights.  In every reachable state num_lights is
\* within 0..8 and every index written in lights[] is below 8; in every
\* frame the lights[i] uniforms and the shadow-map slots (shadowMap<i>,
\* texture unit 4 + i) that the lighting pass writes have i below 8.
C12_AtMostEightLights ==
    /\ num_lights \in 0 .. MaxLights
    /\ \A i \in LightSlotsWritten : i >= 0 /\ i < MaxLights
    /\ frame.rendered =>
         /\ frame.lighting.numLights <= MaxLights
         /\ \A i \in DOMAIN frame.lighting.lights : i < MaxLights
         /\ \A i \in DOMAIN frame.lighting.shadowMaps :
                i < MaxLights /\ frame.lighting.shadowMaps[i].unit = 4 + i

\* A frame rendered with the user's flashlight lit: the candles and the
\* flashlight, seven lights and seven shadow maps.
C12_Witness ==
    /\ FrameCurrent
    /\ flashlight_active = 1
    /\ lights[base_num_lights].color = Warm
    /\ DOMAIN frame.lighting.lights = 0 .. base_num_lights
    /\ DOMAIN frame.lighting.shadowMaps = 0 .. base_num_lights

\* C13 as stated: shadow framebuffers and cube maps are created once, at
\* init.  No step of the program generates another pair, so the number of
\* pairs ever generated stays the number of light slots in use.
C13_ShadowResourcesCreatedOnce ==
    [][ /\ shadow_resources' = shadow_resources
        /\ shadow_resources' = base_num_lights' + 1 ]_vars

\* C14: gbuffer_init(gb, width, height) makes exactly three colour targets,
\* gPosition, gNormal and gAlbedoSpec on colour attachments 0, 1 and 2, and
\* one depth target; all four are allocated width x height; width and height
\* are recorded in the GBuffer, and gbuffer_bind_for_writing binds its
\* framebuffer and sets the viewport to the same width and height.
C14_GBufferTargets ==
    gb.out # << >> =>
        LET g == gb.out[1]
            colour == { g.attachments.GL_COLOR_ATTACHMENT0,
                        g.attachments.GL_COLOR_ATTACHMENT1,
                        g.attachments.GL_COLOR_ATTACHMENT2 }
        IN  /\ g.attachments.GL_COLOR_ATTACHMENT0 = g.gPosition
            /\ g.attachments.GL_COLOR_ATTACHMENT1 = g.gNormal
            /\ g.attachments.GL_COLOR_ATTACHMENT2 = g.gAlbedoSpec
            /\ g.attachments.GL_DEPTH_ATTACHMENT = g.depthBuffer
            /\ Cardinality(colour) = 3
            /\ g.depthBuffer \notin colour
            /\ DOMAIN g.textures = colour \cup { g.depthBuffer }
            /\ Len(g.drawBuffers) = 3
            /\ g.textures[g.depthBuffer].internalformat = "GL_DEPTH_COMPONENT"
            /\ \A t \in colour : g.textures[t].internalformat # "GL_DEPTH_COMPONENT"
            /\ \A t \in DOMAIN g.textures :
                   g.textures[t].width = gb.width /\ g.textures[t].height = gb.height
            /\ g.width = gb.width
            /\ g.height = gb.height
            /\ gb.calls # << >> =>
                   /\ gb.calls[1] = [ op |-> "BindFramebuffer", framebuffer |-> g.framebuffer ]
                   /\ gb.calls[2] = [ op |-> "Viewport", width |-> gb.width,
                                      height |-> gb.height ]

\* A G-buffer that is not square has been made and bound for writing.
C14_Witness ==
    /\ gb.out # << >>
    /\ gb.calls # << >>
    /\ gb.width # gb.height
    /\ gb.out[1].textures[gb.out[1].depthBuffer].height = gb.height

\* The least and the greatest member of a non-empty set of indices.
First(I) == CHOOSE i \in I : \A j \in I : i <= j
Last(I) == CHOOSE i \in I : \A j \in I : j <= i

\* In frame f the geometry pass starts as the contract says: the G-buffer
\* framebuffer is bound, then cleared, before the first mesh draw, and no
\* other framebuffer is bound from there to the last mesh draw.
BoundAndCleared(f) ==
    LET draws == GeometryPass(f)
    IN  \E b \in 1 .. (First(draws) - 1) :
            /\ f.calls[b] = BindFramebuffer(gbuffer.framebuffer)
            /\ \E c \in (b + 1) .. (First(draws) - 1) : f.calls[c].op = "Clear"
            /\ \A k \in (b + 1) .. Last(draws) : f.calls[k].op # "BindFramebuffer"

\* C15 as stated: bind target, clear, draw every mesh, unbind.  The first
\* framebuffer bound after the last mesh draw is the default framebuffer.
C15_BindClearDrawUnbind ==
    frame.rendered =>
        LET last == Last(GeometryPass(frame))
            rebinds == { k \in (last + 1) .. Len(frame.calls) :
                           frame.calls[k].op = "BindFramebuffer" }
        IN  /\ BoundAndCleared(frame)
            /\ rebinds # { }
            /\ frame.calls[First(rebinds)] = BindFramebuffer(0)

\* C15 as amended: bind target, clear, draw every mesh; there is no unbind.
\* The call after the last mesh draw binds the SSAO framebuffer, which takes
\* the G-buffer's place as the target; the default framebuffer is not bound
\* again before the lighting pass, after the SSAO pass has drawn.
C15_BindClearDrawRebind ==
    frame.rendered =>
        LET last == Last(GeometryPass(frame))
            quad == First({ k \in DOMAIN frame.calls : frame.calls[k].op = "Quad" })
        IN  /\ BoundAndCleared(frame)
            /\ frame.calls[last + 1] = BindFramebuffer(ssaoFBO)
            /\ ssaoFBO # gbuffer.framebuffer
            /\ last + 1 < quad
            /\ \A k \in (last + 2) .. quad : frame.calls[k].op # "BindFramebuffer"
            /\ \E k \in (quad + 1) .. Len(frame.calls) :
                   frame.calls[k] = BindFramebuffer(0)

\* A frame with all 43 draws of the geometry pass, followed at once by the
\* SSAO framebuffer.
C15_Witness ==
    /\ FrameCurrent
    /\ Cardinality(GeometryPass(frame)) = 43
    /\ frame.calls[First(GeometryPass(frame)) - 2].op = "Clear"
    /\ frame.calls[Last(GeometryPass(frame)) + 1] = BindFramebuffer(ssaoFBO)

\* Reading a frame's calls: the calls of one kind; the framebuffer bound
\* when call k is issued; the textures bound, since the program in use at
\* call k was selected, to the units it samples; the render targets written
\* by the calls before call k (a cube map by a Scene call, through the face
\* attached two calls earlier; the G-buffer's attachments by a mesh draw
\* under the G-buffer framebuffer; the SSAO texture by a full-screen quad
\* under the SSAO framebuffer).
Calls(f, op) == { k \in DOMAIN f.calls : f.calls[k].op = op }
FramebufferAt(f, k) ==
    LET binds == { j \in Calls(f, "BindFramebuffer") : j < k }
    IN  IF binds = { } THEN 0 ELSE f.calls[Last(binds)].framebuffer
Sampled(f, k) ==
    LET use == Last({ j \in Calls(f, "UseProgram") : j < k })
    IN  { f.calls[j].texture : j \in { i \in Calls(f, "BindTexture") : use < i /\ i < k } }
WrittenBefore(f, k) ==
    LET scenes == { j \in Calls(f, "Scene") : j < k /\ j > 2 }
        draws  == { j \in Calls(f, "Draw") : j < k }
        quads  == { j \in Calls(f, "Quad") : j < k }
    IN  { f.calls[j - 2].texture :
            j \in { i \in scenes : f.calls[i - 2].op = "FramebufferTexture" } }
        \cup (IF draws # { } /\ FramebufferAt(f, First(draws)) = gbuffer.framebuffer
                 /\ FramebufferAt(f, Last(draws)) = gbuffer.framebuffer
              THEN { gbuffer.gPosition, gbuffer.gNormal, gbuffer.gAlbedoSpec,
                     gbuffer.depthBuffer }
              ELSE { })
        \cup (IF \E q \in quads : FramebufferAt(f, q) = ssaoFBO
              THEN { ssaoColorBuffer } ELSE { })

\* C16: pass ordering within every frame.  The cube map of every active
\* light is rendered on all six faces, then the G-buffer is written, then
\* the SSAO pass reads gPosition and gNormal and writes the occlusion
\* texture, and then the lighting pass reads the G-buffer, the occlusion
\* texture and the cube maps and draws to framebuffer 0; no quad samples a
\* target that no earlier call of the same frame has written.
C16_PassOrder ==
    FrameCurrent =>
        LET f == frame
            scenes == Calls(f, "Scene")
            draws == Calls(f, "Draw")
            quads == Calls(f, "Quad")
            ssao == First(quads)
            lighting == Last(quads)
            active == 0 .. (Len(f.shadow) - 1)
        IN  /\ Cardinality(quads) = 2
            /\ \A i \in active, face \in 0 .. (CubeFaces - 1) :
                   \E k \in scenes :
                       /\ k > 2
                       /\ f.calls[k - 2].op = "FramebufferTexture"
                       /\ f.calls[k - 2].texture = lights[i].shadowCubeMap
                       /\ f.calls[k - 2].face = face
            /\ \A k \in scenes : k < First(draws)
            /\ \A k \in draws : k < ssao
            /\ ssao < lighting
            /\ FramebufferAt(f, ssao) = ssaoFBO
            /\ Sampled(f, ssao) = { gbuffer.gPosition, gbuffer.gNormal }
            /\ FramebufferAt(f, lighting) = 0
            /\ Sampled(f, lighting) =
                   { gbuffer.gPosition, gbuffer.gNormal, gbuffer.gAlbedoSpec, ssaoColorBuffer }
                   \cup { lights[i].shadowCubeMap : i \in active }
            /\ \A q \in quads : Sampled(f, q) \subseteq WrittenBefore(f, q)

\* A frame with the user's flashlight lit: seven cube maps rendered, and
\* the lighting pass samples the flashlight's.
C16_Witness ==
    /\ FrameCurrent
    /\ flashlight_active = 1
    /\ lights[base_num_lights].color = Warm
    /\ Cardinality(Calls(frame, "Scene")) = (base_num_lights + 1) * CubeFaces
    /\ lights[base_num_lights].shadowCubeMap
           \in Sampled(frame, Last(Calls(frame, "Quad")))

\* C17: the flashlight follows the camera.  At the end of every
\* main_state_update in which the flashlight is active, the position of
\* lights[base_num_lights] is camera.position + camera.front *
\* flashlight_distance, with the camera and the distance as that update
\* leaves them.
C17_FlashlightFollowsCamera ==
    (phase = "render" /\ flashlight_active = 1) =>
        lights[base_num_lights].position =
            v3_add(camera.position, v3_muls(camera.front, flashlight_distance))

\* An update has ended with the flashlight lit, pushed away from the camera,
\* after the camera has moved and turned.
C17_Witness ==
    /\ phase = "render"
    /\ flashlight_active = 1
    /\ flashlight_distance > 0
    /\ camera.position # camera_init.position
    /\ camera.front # camera_init.front
    /\ lights[base_num_lights].position # camera.position


\* ---------------------------------------------------------------------------
\* C18  Each Q or E press updates all active lights: after an update that
\*      handled a Q or E press (the key went from up to down), every light
\*      with index below num_lights, the flashlight included when it is
\*      active, has radius equal to global_light_radius.
\*      The loop of the handler runs to base_num_lights, so the flashlight in
\*      slot base_num_lights keeps the radius it was built with.
QEPressHandled ==
    \/ pressed.q = 0 /\ pressed'.q = 1
    \/ pressed.e = 0 /\ pressed'.e = 1

C18_PressUpdatesAllActiveLights ==
    [][ QEPressHandled =>
            \A i \in 0..(num_lights' - 1) :
                lights'[i].radius = global_light_radius' ]_vars


\* ---------------------------------------------------------------------------
\* C19  The shadow pass renders the entire scene: in every frame, the mesh
\*      instances (mesh and model transform) drawn in the G-buffer pass and
\*      the instances render_scene_geometry draws for a cube face are the
\*      same set.
\*      The G-buffer pass also draws a mug on table 0 and a plate and a bottle
\*      on table 1, which render_scene_geometry leaves out: these three cast
\*      no shadow.
GBufferInstances(f) ==
    { Instance(f.calls[k].mesh, f.calls[k].model) : k \in GeometryPass(f) }
ShadowInstances(f) == { f.scene[k] : k \in DOMAIN f.scene }

C19_ShadowPassDrawsWholeScene ==
    FrameCurrent => GBufferInstances(frame) = ShadowInstances(frame)


\* ---------------------------------------------------------------------------
\* C20  After any sequence of scroll events and R presses, flashlight_distance
\*      is a multiple of 0.5 within [-5, 10]; an accepted scroll event changes
\*      it by exactly 0.5 up or down before clamping (so by 0.5 or, at a
\*      clamp, not at all), and scrolling towards 0 brings it back to exactly
\*      0.
RECURSIVE ScrollTowardsZero(_, _)
ScrollTowardsZero(s, n) ==
    IF n = 0 \/ s.flashlight_distance = 0 THEN s
    ELSE ScrollTowardsZero(
             scroll_callback(s, TRUE, IF s.flashlight_distance > 0 THEN -1 ELSE 1),
             n - 1)

DistanceOnGrid ==
    /\ flashlight_distance \in DistanceMin .. DistanceMax
    /\ flashlight_distance % ScrollStep = 0
    /\ flashlight_active = 1 =>
           ScrollTowardsZero(S, DistanceMax \div ScrollStep).flashlight_distance = 0

ScrollEvent == phase = "update" /\ phase' = "update"

C20_DistanceOnHalfGrid ==
    /\ []DistanceOnGrid
    /\ [][ ScrollEvent =>
               \/ flashlight_distance' = flashlight_distance
               \/ flashlight_distance' = flashlight_distance + ScrollStep
               \/ flashlight_distance' = flashlight_distance - ScrollStep ]_vars

\* The wheel was turned down to the lower clamp after an R press reset the
\* distance.
C20_Witness ==
    /\ phase = "update"
    /\ flashlight_active = 1
    /\ pressed.r = 1
    /\ frame.rendered
    /\ flashlight_distance = DistanceMin


\* ---------------------------------------------------------------------------
\* C21  A scroll event changes flashlight_distance only when the F key is
\*      held and the flashlight is active; otherwise it changes nothing, and
\*      in no case does it change a state variable other than
\*      flashlight_distance.
ScrollIgnored == ~probe'.scroll[1] \/ flashlight_active = 0

C21_ScrollNeedsFAndFlashlight ==
    [][ ScrollEvent =>
            /\ UNCHANGED << camera, mouse, lights, num_lights, base_num_lights,
                            flashlight_active, global_light_radius,
                            flashlight_only_shadows, animation_time,
                            startup_flashlight_timer, pressed, shadow_resources,
                            texture_manager >>
            /\ ScrollIgnored => flashlight_distance' = flashlight_distance ]_vars

\* The wheel was turned without F while the flashlight was on and away from
\* the camera, or with F while the flashlight was off.
C21_Witness ==
    /\ phase = "update"
    /\ probe.scroll # << >>
    /\ probe.scroll[2] # 0
    /\ \/ ~probe.scroll[1] /\ flashlight_active = 1 /\ flashlight_distance # 0
       \/ probe.scroll[1] /\ flashlight_active = 0 /\ flashlight_distance # 0


\* ---------------------------------------------------------------------------
\* C22  Pressing R while the flashlight is active resets flashlight_distance
\*      to 0; pressing R while it is inactive leaves flashlight_distance
\*      unchanged; and R never changes num_lights, flashlight_active, the
\*      light radius or the shadow mode: an update with R down leaves them as
\*      the same update without R would.
\*      (The flashlight is active or not as the R handler finds it, that is
\*      after the startup timer and the F handler of the same update.)
UpdateStep == phase = "update" /\ phase' = "render"

\* The keys the update just taken saw down, read back from the key flags,
\* and the state the same update would have left without the given key.
KeysSeen ==
    (IF pressed'.f = 1 THEN { "F" } ELSE { })
    \cup (IF pressed'.q = 1 THEN { "Q" } ELSE { })
    \cup (IF pressed'.e = 1 THEN { "E" } ELSE { })
    \cup (IF pressed'.tab = 1 THEN { "TAB" } ELSE { })
    \cup (IF pressed'.r = 1 THEN { "R" } ELSE { })
UpdateWithout(key) ==
    main_state_update(S, KeysSeen \ { key }, mouse'.lastX, mouse'.lastY,
                      animation_time' - animation_time)

C22_ResetKey ==
    [][ UpdateStep /\ pressed'.r = 1 =>
            /\ pressed.r = 0 /\ flashlight_active' = 1 => flashlight_distance' = 0
            /\ pressed.r = 0 /\ flashlight_active' = 0 =>
                   flashlight_distance' = flashlight_distance
            /\ \E t \in { UpdateWithout("R") } :
                   /\ num_lights' = t.num_lights
                   /\ flashlight_active' = t.flashlight_active
                   /\ global_light_radius' = t.global_light_radius
                   /\ flashlight_only_shadows' = t.flashlight_only_shadows
                   /\ \A i \in LightIndex : lights'[i].radius = t.lights[i].radius ]_vars

\* R went down in the second update: the frame drawn after the first update
\* shows the flashlight pushed away from the camera (so R was not handled
\* then), and the distance is back at 0.
C22_Witness ==
    /\ phase = "render"
    /\ animation_time = 18
    /\ frame.rendered
    /\ frame.lighting.numLights = base_num_lights + 1
    /\ frame.lighting.lights[base_num_lights].Position # camera.position
    /\ pressed.r = 1
    /\ flashlight_active = 1
    /\ flashlight_distance = 0


\* ---------------------------------------------------------------------------
\* C23  The Q, E and TAB controls act once per key press: an update applies
\*      a key's action (radius -1, radius +1, shadow-mode flip) exactly when
\*      it sees the key down and the update before it (if any) saw it up; an
\*      update that sees the key still held applies nothing for it.
QActs == pressed.q = 0 /\ pressed'.q = 1
EActs == pressed.e = 0 /\ pressed'.e = 1
TabActs == pressed.tab = 0 /\ pressed'.tab = 1

RadiusAfterKeys ==
    LET r1 == IF QActs
              THEN (IF global_light_radius - 1 < RadiusMin THEN RadiusMin
                    ELSE global_light_radius - 1)
              ELSE global_light_radius
    IN  IF EActs
        THEN (IF r1 + 1 > RadiusMax THEN RadiusMax ELSE r1 + 1)
        ELSE r1

C23_OncePerKeyPress ==
    [][ UpdateStep =>
            /\ global_light_radius' = RadiusAfterKeys
            /\ flashlight_only_shadows' =
                   IF TabActs THEN 1 - flashlight_only_shadows
                   ELSE flashlight_only_shadows ]_vars

\* Q went down, up, down and stayed down: two presses took the radius from 8
\* to 6 within three updates (the frame drawn after the third shows 6), and
\* the fourth update, with Q still held, left it there.
C23_Witness ==
    /\ phase = "render"
    /\ animation_time = 24
    /\ pressed.q = 1
    /\ pressed.e = 0
    /\ global_light_radius = RadiusInit - 2
    /\ frame.rendered
    /\ frame.lighting.lights[0].Radius = RadiusInit - 2


\* ---------------------------------------------------------------------------
\* C24  The shadow mode starts as flashlight-only (1); each TAB press flips
\*      flashlight_only_shadows between 0 and 1; two TAB presses restore the
\*      mode that held before them; and TAB changes no other state variable:
\*      an update with TAB down leaves everything but the mode and the TAB
\*      key flag as the same update without TAB would.
ModeState ==
    /\ flashlight_only_shadows \in { 0, 1 }
    /\ animation_time = 0 => flashlight_only_shadows = 1
    /\ probe.tabs = 2 => flashlight_only_shadows = probe.m0

C24_TabFlipsShadowMode ==
    /\ []ModeState
    /\ [][ UpdateStep /\ pressed'.tab = 1 =>
               /\ TabActs => flashlight_only_shadows' = 1 - flashlight_only_shadows
               /\ \E t \in { UpdateWithout("TAB") } :
                      [ t EXCEPT !.flashlight_only_shadows = flashlight_only_shadows',
                                 !.pressed.tab = 1 ] = S' ]_vars

\* Two TAB presses were handled since the mode was noted, with the
\* flashlight held on and pushed forward.
C24_Witness ==
    /\ probe.tabs = 2
    /\ flashlight_only_shadows = probe.m0
    /\ flashlight_active = 1
    /\ flashlight_distance > 0


\* ---------------------------------------------------------------------------
\* C25  For every material and every outcome of its normal-map load,
\*      has_normal_map is 1 after texture_manager_init exactly when the normal
\*      texture was loaded, and every draw under a material bound with
\*      material_bind has hasNormalMap = 1 exactly for those materials; a
\*      failed load does not stop texture_manager_init: every material is
\*      initialised and every other file that can be loaded is loaded.
NormalLoaded(m) == m \in Textured /\ NormalPath(m) \in probe.files
DiffuseLoaded(m) == m \in Textured /\ DiffusePath(m) \in probe.files

C25_NormalMapFlagFollowsLoad ==
    /\ DOMAIN texture_manager = Materials
    /\ \A m \in Materials :
         /\ texture_manager[m].has_normal_map = 1 <=> NormalLoaded(m)
         /\ texture_manager[m].normal # 0 <=> NormalLoaded(m)
         /\ texture_manager[m].diffuse # 0 <=> DiffuseLoaded(m)
    /\ frame.rendered =>
         \A k \in GeometryPass(frame) :
             LET u == frame.calls[k].uniforms
             IN  u.material # "none" =>
                     (u.hasNormalMap = 1 <=> NormalLoaded(u.material))

\* The normal map of the first material failed to load, a material after it
\* has both its textures, and a frame has drawn under both.
C25_Witness ==
    /\ frame.rendered
    /\ ~NormalLoaded("wooden_barrel")
    /\ texture_manager["wooden_stool"].has_normal_map = 1
    /\ texture_manager["wooden_stool"].diffuse # 0
    /\ \E k \in GeometryPass(frame) :
         /\ frame.calls[k].uniforms.material = "wooden_barrel"
         /\ frame.calls[k].uniforms.hasNormalMap = 0
    /\ \E k \in GeometryPass(frame) :
         /\ frame.calls[k].uniforms.material = "wooden_stool"
         /\ frame.calls[k].uniforms.hasNormalMap = 1


\* ---------------------------------------------------------------------------
\* C26  In every state reachable after main_state_init, num_lights is
\*      base_num_lights + 1 when flashlight_active is 1 and base_num_lights
\*      when it is 0, and base_num_lights stays at the candle count, 6.
C26_LightCountFollowsFlashlight ==
    /\ base_num_lights = NumWallCandles + NumTableCandles
    /\ base_num_lights = 6
    /\ flashlight_active \in { 0, 1 }
    /\ num_lights = base_num_lights + flashlight_active

\* The flashlight was off in the last frame drawn and has been lit with F
\* since.
C26_Witness ==
    /\ flashlight_active = 1
    /\ ~StartupPulse
    /\ num_lights = base_num_lights + 1
    /\ frame.rendered
    /\ frame.lighting.numLights = base_num_lights


\* ---------------------------------------------------------------------------
\* C27  Hold-to-light behaviour of F: an update that starts with the startup
\*      timer completed and with F seen released by some earlier update, in
\*      whichever order the two happened, ends with the flashlight active
\*      exactly when it saw F held (it leaves f_key_pressed set exactly
\*      then), and with num_lights = base_num_lights when it saw F released.
\*      When F goes down during the startup pulse and stays down until the
\*      timer fires, the timer switches the flashlight off under the held
\*      key, and it stays off for as long as F is held; the same happens to
\*      a flashlight lit with F when the timer, left running by an early
\*      release, fires later.
TimerCompleted == startup_flashlight_timer = TimerDone

C27_HoldToLight ==
    [][ (UpdateStep /\ TimerCompleted /\ probe.released = 1) =>
            /\ flashlight_active' = 1 <=> pressed'.f = 1
            /\ pressed'.f = 0 => num_lights' = base_num_lights' ]_vars

\* ---------------------------------------------------------------------------
\* C28  In every frame the lights whose shadow cube map the shadow pass
\*      renders, the lights whose shadow map the lighting pass binds and the
\*      lights uploaded to the lighting shader (indices below numLights) are
\*      the same set, and the shadow map bound for an uploaded light is the
\*      cube map rendered for it in that frame, from the position uploaded.
ShadowRendered(f) == { f.shadow[k].light : k \in DOMAIN f.shadow }
ShadowBound(f) == DOMAIN f.lighting.shadowMaps
Uploaded(f) == 0 .. (f.lighting.numLights - 1)

C28_ShadowedLightsAreUploadedLights ==
    frame.rendered =>
        /\ ShadowRendered(frame) = Uploaded(frame)
        /\ ShadowBound(frame) = Uploaded(frame)
        /\ DOMAIN frame.lighting.lights = Uploaded(frame)
        /\ \A k \in DOMAIN frame.shadow :
             \A face \in DOMAIN frame.shadow[k].faces :
                 LET i == frame.shadow[k].light
                     r == frame.shadow[k].faces[face]
                 IN  /\ r.eye = frame.lighting.lights[i].Position
                     /\ r.cubeMap = frame.lighting.shadowMaps[i].cubeMap

\* A frame with the six candles and a flashlight lit with F.
C28_Witness ==
    /\ frame.rendered
    /\ frame.lighting.numLights = base_num_lights + 1
    /\ frame.lighting.lights[base_num_lights].Color = vec3(1000, 900, 700)
    /\ ShadowRendered(frame) = 0 .. base_num_lights
    /\ Len(frame.shadow) = base_num_lights + 1


\* ---------------------------------------------------------------------------
\* C29  In every state reachable after main_state_init every candle light
\*      (index below base_num_lights) has radius global_light_radius; a step
\*      that handles no Q or E press (candle animation, F, TAB, R, scroll)
\*      changes no candle light's radius; the candles' light indices are all
\*      below base_num_lights, and an update that finds and leaves the
\*      flashlight off leaves the flashlight slot lights[base_num_lights] as
\*      it was.
CandleLights == 0 .. (base_num_lights - 1)
CandleSlots ==
    { wall_candles[k].light_index : k \in 1 .. NumWallCandles }
    \cup { table_candles[k].light_index : k \in 1 .. NumTableCandles }

C29_CandleRadiusIsGlobalRadius ==
    /\ [](/\ CandleSlots = CandleLights
          /\ \A i \in CandleLights : lights[i].radius = global_light_radius)
    /\ [][ /\ ~(UpdateStep /\ (QActs \/ EActs)) =>
                \A i \in CandleLights : lights'[i].radius = lights[i].radius
           /\ (UpdateStep /\ flashlight_active = 0 /\ flashlight_active' = 0) =>
                lights'[base_num_lights] = lights[base_num_lights] ]_vars

\* Q has taken the radius down, and the flashlight, lit with F with its own
\* radius, has been pushed forward with the wheel in all-lights shadow mode.
C29_Witness ==
    /\ phase = "render"
    /\ global_light_radius = RadiusInit - 1
    /\ \A i \in CandleLights : lights[i].radius = RadiusInit - 1
    /\ flashlight_active = 1
    /\ lights[base_num_lights].radius = FlashlightRadius
    /\ flashlight_distance > 0
    /\ flashlight_only_shadows = 0
    /\ lights[0].position # main_state_init.lights[0].position


\* ---------------------------------------------------------------------------
\* C30  Viewport discipline across passes: in every frame, every scene draw
\*      into a shadow cube-map face happens under the 512 x 512 viewport, and
\*      every draw into the G-buffer, the SSAO target and the screen happens
\*      under the window-sized viewport, with six or seven lights in the
\*      shadow pass.
ViewportAt(f, k) ==
    LET sets == { j \in Calls(f, "Viewport") : j < k }
    IN  IF sets = { } THEN << 0, 0 >>
        ELSE << f.calls[Last(sets)].width, f.calls[Last(sets)].height >>
ShadowFramebuffers(f) ==
    { f.shadow[k].faces[face].framebuffer :
        k \in DOMAIN f.shadow, face \in 1 .. CubeFaces }

C30_ViewportDiscipline ==
    frame.rendered =>
        /\ \A k \in Calls(frame, "Scene") :
             /\ FramebufferAt(frame, k) \in ShadowFramebuffers(frame)
             /\ ViewportAt(frame, k) = << 512, 512 >>
        /\ \A k \in Calls(frame, "Draw") :
             /\ FramebufferAt(frame, k) = gbuffer.framebuffer
             /\ ViewportAt(frame, k) = << WindowWidth, WindowHeight >>
        /\ \A k \in Calls(frame, "Quad") :
             /\ FramebufferAt(frame, k) \in { ssaoFBO, 0 }
             /\ ViewportAt(frame, k) = << WindowWidth, WindowHeight >>

\* A frame with seven shadow lights (42 face renders) that went on to draw
\* the G-buffer, the SSAO target and the screen.
C30_Witness ==
    /\ frame.rendered
    /\ Cardinality(Calls(frame, "Scene")) = CubeFaces * (base_num_lights + 1)
    /\ Cardinality(Calls(frame, "Draw")) > 0
    /\ \E k \in Calls(frame, "Quad") : FramebufferAt(frame, k) = ssaoFBO
    /\ \E k \in Calls(frame, "Quad") : FramebufferAt(frame, k) = 0

====
